---- MODULE Spec2Model ----
(***************************************************************************)
(* PokeProtocol: the reliability layer (protocol/reliability.py), the      *)
(* protocol state machine (protocol/state_machine.py), the damage engine   *)
(* (protocol/game_logic.py) and the driver loops of main.py, for one host, *)
(* one joiner and one spectator exchanging datagrams over a lossy,         *)
(* reordering network.                                                     *)
(*                                                                         *)
(* A handler is one atomic action.  Inside an action the peer's object is  *)
(* a record c (the fields of ProtocolStateMachine and of its               *)
(* ReliabilityLayer) extended with four scratch fields: out, the           *)
(* datagrams handed to transport.send in call order; stamped, the numbers  *)
(* returned by next_sequence_number; raised, the exceptions raised while   *)
(* the handler ran; exc, the exception that left the handler uncaught.     *)
(***************************************************************************)
EXTENDS Integers, Sequences, FiniteSets, TLC

\* ------------------------------------------------------------------ bounds
MaxSeq == 8
MaxRetriesArg == 1
MaxSeed == 2
MaxNetFaults == 1
MaxLate == 1
MaxLayerSends == 2
MaxWatchSeq == 14
MaxUses == 1
MaxKeyLen == 1
MaxValLen == 2
MaxFields == 2
MaxRaceChats == 2
MaxMoveSeq == 3

\* ------------------------------------------------------------------ peers
Host == "H"
Joiner == "J"
Spectator == "S"
Peers == {Host, Joiner, Spectator}

Role(p) ==
  IF p = Host THEN "HOST" ELSE IF p = Joiner THEN "JOINER" ELSE "SPECTATOR"

\* Python's None for an object-valued attribute, and for a string-valued one.
None == [none |-> TRUE]
NoneStr == "None"

\* ------------------------------------------------------------------ text
\* str(n) of encode_message and int(s) of the handlers, on the integers the
\* model puts on the wire.
Digits == <<"0", "1", "2", "3", "4", "5", "6", "7", "8", "9", "10", "11", "12", "13", "14", "15", "16",
           "17", "18", "19", "20", "21", "22", "23", "24">>
NegDigits == <<"-1", "-2", "-3", "-4", "-5", "-6", "-7", "-8">>
NumRange == (0 - Len(NegDigits)) .. (Len(Digits) - 1)

ToStr(n) == IF n >= 0 THEN Digits[n + 1] ELSE NegDigits[0 - n]

IsIntStr(s) == \E n \in NumRange : ToStr(n) = s

ParseInt(s) == CHOOSE n \in NumRange : ToStr(n) = s

Get(msg, k) == IF k \in DOMAIN msg THEN msg[k] ELSE NoneStr

\* dict.pop(k, None) for each k of ks
Without(msg, ks) == [k \in (DOMAIN msg) \ ks |-> msg[k]]

\* fields[k] = v
With(msg, k, v) == (k :> v) @@ msg

\* require_fields: the first missing key of required, or NoneStr
RECURSIVE require_fields(_, _)
require_fields(msg, required) ==
  IF required = << >> THEN NoneStr
  ELSE IF Head(required) \notin DOMAIN msg THEN Head(required)
  ELSE require_fields(msg, Tail(required))

\* ------------------------------------------------------------------ catalog
\* The creature and move catalogs are supplied by the data loader.  Stats are
\* chosen small so that hit points reach zero within a few turns.
\* effectiveness maps an attacking type to four times the multiplier.
Catalog ==
  [ Alpha |-> [name |-> "Alpha", max_hp |-> 3, hp |-> 3, attack |-> 1,
               special_attack |-> 1, defense |-> 20, special_defense |-> 30,
               types |-> <<"normal">>, abilities |-> << >>,
               special_attack_uses |-> 0, special_defense_uses |-> 0,
               effectiveness |-> [normal |-> 4, fire |-> 4]],
    Beta  |-> [name |-> "Beta", max_hp |-> 4, hp |-> 4, attack |-> 1,
               special_attack |-> 1, defense |-> 40, special_defense |-> 90,
               types |-> <<"fire">>, abilities |-> << >>,
               special_attack_uses |-> 0, special_defense_uses |-> 0,
               effectiveness |-> [normal |-> 4, fire |-> 2]],
    Gamma |-> [name |-> "Gamma", max_hp |-> 5, hp |-> 5, attack |-> 1,
               special_attack |-> 1, defense |-> 20, special_defense |-> 15,
               types |-> <<"normal">>, abilities |-> << >>,
               special_attack_uses |-> 0, special_defense_uses |-> 0,
               effectiveness |-> [normal |-> 4, fire |-> 4]],
    Delta |-> [name |-> "Delta", max_hp |-> 3, hp |-> 3, attack |-> 1,
               special_attack |-> 1, defense |-> 20, special_defense |-> 30,
               types |-> <<"normal">>, abilities |-> <<"huge power">>,
               special_attack_uses |-> 0, special_defense_uses |-> 0,
               effectiveness |-> [normal |-> 4, fire |-> 4]] ]

CreatureNames == DOMAIN Catalog

MOVES_DB ==
  [ Tackle |-> [name |-> "Tackle", power |-> 40, damage_category |-> "physical",
                type |-> "normal", scale_with_hp |-> FALSE],
    Flamethrower |-> [name |-> "Flamethrower", power |-> 90,
                damage_category |-> "special", type |-> "fire",
                scale_with_hp |-> FALSE] ]

MoveNames == DOMAIN MOVES_DB

\* the (creature, special attack uses, special defense uses) a driver may
\* give to its setup command
SetupArgs(p) == IF p = Host THEN {<<"Alpha", 0, 0>>} ELSE {<<"Beta", 1, 1>>}

create_pokemon(name, sp_atk_uses, sp_def_uses) ==
  [Catalog[name] EXCEPT !.hp = Catalog[name].max_hp,
                        !.special_attack_uses = sp_atk_uses,
                        !.special_defense_uses = sp_def_uses]

\* BattlePokemon.to_json followed by BattlePokemon.from_json: the abilities
\* are not serialized and the reconstructed creature has none.
to_json(pk) == [k \in (DOMAIN pk) \ {"abilities"} |-> pk[k]]

from_json(js) == [k \in (DOMAIN js) \cup {"abilities"} |->
                    IF k = "abilities" THEN << >> ELSE js[k]]

HasAbility(pk, a) == \E i \in 1..Len(pk.abilities) : pk.abilities[i] = a

get_type_effectiveness4(move_type, defender) ==
  IF move_type \in DOMAIN defender.effectiveness
    THEN defender.effectiveness[move_type] ELSE 4

\* get_effective_move_power, times two (hp_ratio is 0.5)
get_effective_move_power2(move, attacker) ==
  IF move.scale_with_hp
    THEN LET scaled2 == attacker.max_hp
             lo == IF 220 < scaled2 THEN 220 ELSE scaled2
         IN IF 70 > lo THEN 70 ELSE lo
    ELSE 2 * move.power

\* variant: the quotient is returned as it is, without the floor of 1
calculate_damage_no_minimum(attacker, defender, move) ==
  IF move.damage_category = "status"
    THEN [dmg |-> 0, attacker |-> attacker, defender |-> defender]
  ELSE
    LET special == move.damage_category = "special"
        physical == move.damage_category = "physical"
        atk0 == IF physical THEN attacker.attack ELSE attacker.special_attack
        def0 == IF physical THEN defender.defense ELSE defender.special_defense
        atk1 == IF physical /\ HasAbility(attacker, "huge power") THEN 2 * atk0 ELSE atk0
        boostA == special /\ attacker.special_attack_uses > 0
        boostD == special /\ defender.special_defense_uses > 0
        attacker1 == IF boostA
                       THEN [attacker EXCEPT !.special_attack_uses = @ - 1]
                       ELSE attacker
        defender1 == IF boostD
                       THEN [defender EXCEPT !.special_defense_uses = @ - 1]
                       ELSE defender
        atkN == IF boostA THEN 13 * atk1 ELSE 10 * atk1
        defN0 == IF boostD THEN 13 * def0 ELSE 10 * def0
        defN == IF defN0 < 10 THEN 10 ELSE defN0
        eff4 == get_type_effectiveness4(move.type, defender)
        eff8 == IF HasAbility(defender, "thick fat") /\ move.type \in {"fire", "ice"}
                  THEN eff4 ELSE 2 * eff4
        pow2 == get_effective_move_power2(move, attacker)
    IN [dmg |-> (pow2 * atkN * eff8) \div (16 * defN),
        attacker |-> attacker1, defender |-> defender1]

\* calculate_damage: the integer returned and the two creatures after the
\* uses counters were consumed.  Reals are kept as numerator / denominator.
calculate_damage(attacker, defender, move) ==
  IF move.damage_category = "status"
    THEN [dmg |-> 0, attacker |-> attacker, defender |-> defender]
  ELSE
    LET special == move.damage_category = "special"
        physical == move.damage_category = "physical"
        atk0 == IF physical THEN attacker.attack ELSE attacker.special_attack
        def0 == IF physical THEN defender.defense ELSE defender.special_defense
        atk1 == IF physical /\ HasAbility(attacker, "huge power") THEN 2 * atk0 ELSE atk0
        boostA == special /\ attacker.special_attack_uses > 0
        boostD == special /\ defender.special_defense_uses > 0
        attacker1 == IF boostA
                       THEN [attacker EXCEPT !.special_attack_uses = @ - 1]
                       ELSE attacker
        defender1 == IF boostD
                       THEN [defender EXCEPT !.special_defense_uses = @ - 1]
                       ELSE defender
        \* atk_stat = atkN / 10, def_stat = defN / 10
        atkN == IF boostA THEN 13 * atk1 ELSE 10 * atk1
        defN0 == IF boostD THEN 13 * def0 ELSE 10 * def0
        defN == IF defN0 < 10 THEN 10 ELSE defN0
        \* type_effectiveness = eff8 / 8
        eff4 == get_type_effectiveness4(move.type, defender)
        eff8 == IF HasAbility(defender, "thick fat") /\ move.type \in {"fire", "ice"}
                  THEN eff4 ELSE 2 * eff4
        pow2 == get_effective_move_power2(move, attacker)
        \* raw = (pow2/2 * atkN/10 * eff8/8) / (defN/10)
        raw == (pow2 * atkN * eff8) \div (16 * defN)
    IN [dmg |-> IF raw < 1 THEN 1 ELSE raw,
        attacker |-> attacker1, defender |-> defender1]

\* ------------------------------------------------------------------ state
VARIABLES
  sm,    \* sm[p]: the ProtocolStateMachine of peer p and its ReliabilityLayer
  net,   \* net[p]: the datagrams [src, msg] on their way to p, oldest first
  ev,    \* the handler that ran last, its input and what it handed to send
  tx,    \* tx[p][<<seq, addr>>]: how often p put message seq on the wire for
         \* addr, and its message_type
  seen,  \* seen[p]: the largest sequence number p has stamped or received
  faults, \* how many datagrams the network has dropped or delivered out
          \* of order, and how many ticks have found the retransmission
          \* timeout expired
  th     \* th[t]: where thread t of the host application stands inside a call
         \* of ReliabilityLayer.send_reliable, and what the thread has sent

vars == <<sm, net, ev, tx, seen, faults, th>>

\* BattleApplication.run: the main thread runs input_loop, a second thread
\* runs network_loop
Threads == {"input", "network"}

\* a thread that is not inside send_reliable and has sent nothing
NoCall == [pc |-> "idle", tmp |-> 0, seq |-> 0, fields |-> [message_type |-> NoneStr],
           addr |-> NoneStr, log |-> << >>]

\* ProtocolStateMachine.__init__ and ReliabilityLayer.__init__
InitPeer(p, mr) ==
  [ role |-> Role(p),
    peer_addr |-> NoneStr,
    local_pokemon |-> None,
    remote_pokemon |-> None,
    turn_owner |-> NoneStr,
    remote_move |-> NoneStr,
    last_announced_move |-> NoneStr,
    last_calc_report_remote |-> None,
    local_calc_report |-> None,
    spectators |-> << >>,
    state |-> "SETUP",
    running |-> TRUE,
    seq |-> 0,
    pending |-> << >>,
    max_retries |-> mr,
    rng_seed |-> 0 ]

Scratch == [out |-> << >>, stamped |-> << >>, raised |-> << >>, exc |-> NoneStr]

Enter(p) == sm[p] @@ Scratch

Leave(c) == [k \in (DOMAIN c) \ (DOMAIN Scratch) |-> c[k]]

Raise(c, e) == [c EXCEPT !.raised = Append(@, e), !.exc = e]

\* a try/except around a call that raised e: the exception is swallowed
Caught(c) == [c EXCEPT !.exc = NoneStr]

\* ------------------------------------------------------------------ reliability layer
transport_send(c, msg, addr) ==
  [c EXCEPT !.out = Append(@, [dst |-> addr, msg |-> msg])]

PendingIndex(pend, seq, addr) ==
  IF \E i \in 1..Len(pend) : pend[i].seq = seq /\ pend[i].addr = addr
    THEN CHOOSE i \in 1..Len(pend) : pend[i].seq = seq /\ pend[i].addr = addr
    ELSE 0

\* self.pending[(seq, addr)] = (msg_bytes, addr, now, 0)
PendingPut(pend, seq, addr, msg) ==
  LET rec == [seq |-> seq, addr |-> addr, msg |-> msg, retries |-> 0]
      i == PendingIndex(pend, seq, addr)
  IN IF i = 0 THEN Append(pend, rec) ELSE [pend EXCEPT ![i] = rec]

\* the counter after the increment is the number returned
next_sequence_number(c) ==
  [c EXCEPT !.seq = @ + 1, !.stamped = Append(@, c.seq + 1)]

send_reliable(c, fields, addr) ==
  LET c0 == next_sequence_number(c)
      seq == c0.seq
      msg == With(fields, "sequence_number", ToStr(seq))
      c1 == transport_send(c0, msg, addr)
  IN [c1 EXCEPT !.pending = PendingPut(@, seq, addr, msg)]

RECURSIVE SendEach(_, _, _, _)
SendEach(c, msg, seq, addrs) ==
  IF addrs = << >> THEN c
  ELSE LET c1 == transport_send(c, msg, Head(addrs))
       IN SendEach([c1 EXCEPT !.pending = PendingPut(@, seq, Head(addrs), msg)],
                   msg, seq, Tail(addrs))

send_reliable_to_many(c, fields, addrs) ==
  LET c0 == next_sequence_number(c)
      seq == c0.seq
      msg == With(fields, "sequence_number", ToStr(seq))
  IN SendEach(c0, msg, seq, addrs)

\* variant: the record is looked up by the acknowledged number alone
handle_ack_any_addr(c, ack_number, addr) ==
  [c EXCEPT !.pending = SelectSeq(@, LAMBDA e : e.seq # ack_number)]

handle_ack(c, ack_number, addr) ==
  LET i == PendingIndex(c.pending, ack_number, addr)
  IN IF i = 0 THEN c
     ELSE [c EXCEPT !.pending = SubSeq(@, 1, i - 1) \o SubSeq(@, i + 1, Len(@))]

\* variant: the ACK goes out through send_reliable like any other message
maybe_send_ack_tracked(c, seq, addr) ==
  send_reliable(c, [message_type |-> "ACK", ack_number |-> ToStr(seq)], addr)

maybe_send_ack(c, seq, addr) ==
  transport_send(c, [message_type |-> "ACK", ack_number |-> ToStr(seq)], addr)

\* variant: the local counter is not aligned with the number received
incoming_message_no_align(c, msg, addr) ==
  IF "sequence_number" \notin DOMAIN msg THEN c
  ELSE IF ~IsIntStr(msg.sequence_number) THEN c
  ELSE maybe_send_ack(c, ParseInt(msg.sequence_number), addr)

incoming_message(c, msg, addr) ==
  IF "sequence_number" \notin DOMAIN msg THEN c
  ELSE IF ~IsIntStr(msg.sequence_number) THEN c
  ELSE LET seq_int == ParseInt(msg.sequence_number)
           c1 == IF seq_int > c.seq THEN [c EXCEPT !.seq = seq_int] ELSE c
       IN maybe_send_ack(c1, seq_int, addr)

\* variant: the retry count is compared with > instead of >=
RECURSIVE r_tick_from_gt(_, _, _)
r_tick_from_gt(c, late, i) ==
  IF i > Len(c.pending) THEN c
  ELSE LET e == c.pending[i] IN
    IF i \notin late THEN r_tick_from_gt(c, late, i + 1)
    ELSE IF e.retries > c.max_retries THEN Raise(c, "ReliabilityError")
    ELSE LET c1 == transport_send(c, e.msg, e.addr)
         IN r_tick_from_gt([c1 EXCEPT !.pending[i] = [e EXCEPT !.retries = @ + 1]],
                           late, i + 1)

\* variant: the record is retransmitted before its retry count is looked at
RECURSIVE r_tick_from_send_first(_, _, _)
r_tick_from_send_first(c, late, i) ==
  IF i > Len(c.pending) THEN c
  ELSE LET e == c.pending[i] IN
    IF i \notin late THEN r_tick_from_send_first(c, late, i + 1)
    ELSE LET c1 == transport_send(c, e.msg, e.addr) IN
      IF e.retries >= c.max_retries THEN Raise(c1, "ReliabilityError")
      ELSE r_tick_from_send_first([c1 EXCEPT !.pending[i] = [e EXCEPT !.retries = @ + 1]],
                                  late, i + 1)

\* ReliabilityLayer.tick over list(self.pending.items()) from entry i on.
\* late stands for the clock: the positions of the pending records for which
\* now - last_sent_time > timeout.
RECURSIVE r_tick_from(_, _, _)
r_tick_from(c, late, i) ==
  IF i > Len(c.pending) THEN c
  ELSE LET e == c.pending[i] IN
    IF i \notin late THEN r_tick_from(c, late, i + 1)
    ELSE IF e.retries >= c.max_retries THEN Raise(c, "ReliabilityError")
    ELSE LET c1 == transport_send(c, e.msg, e.addr)
         IN r_tick_from([c1 EXCEPT !.pending[i] = [e EXCEPT !.retries = @ + 1]],
                        late, i + 1)

r_tick(c, late) == r_tick_from(c, late, 1)

\* ------------------------------------------------------------------ state machine
RECURSIVE RelayEach(_, _, _)
RelayEach(c, fields, addrs) ==
  IF addrs = << >> THEN c
  ELSE RelayEach(send_reliable(c, fields, Head(addrs)), fields, Tail(addrs))

\* ProtocolStateMachine._send_reliable
sm_send_reliable(c, fields) ==
  IF c.peer_addr = NoneStr THEN c
  ELSE LET c1 == send_reliable(c, fields, c.peer_addr)
       IN IF c.role = "HOST" /\ c.spectators # << >>
            THEN RelayEach(c1, fields, c.spectators)
            ELSE c1

Flip(t) == IF t = "LOCAL" THEN "REMOTE" ELSE "LOCAL"

EffectivenessMsg(eff4) ==
  IF eff4 = 0 THEN "no effect"
  ELSE IF eff4 >= 6 THEN "super effective"
  ELSE IF eff4 < 4 THEN "not very effective"
  ELSE ""

\* variant: GAME_OVER is sent one hit point early
send_calculation_report_game_over_at_one(c, move_name) ==
  IF c.local_pokemon = None \/ c.remote_pokemon = None THEN Raise(c, "RuntimeError")
  ELSE IF move_name \notin DOMAIN MOVES_DB THEN Raise(c, "RuntimeError")
  ELSE
    LET move == MOVES_DB[move_name]
        local_is_attacker == c.turn_owner = "LOCAL"
        attacker == IF local_is_attacker THEN c.local_pokemon ELSE c.remote_pokemon
        defender == IF local_is_attacker THEN c.remote_pokemon ELSE c.local_pokemon
        r == calculate_damage(attacker, defender, move)
        defender1 == [r.defender EXCEPT !.hp = @ - r.dmg]
        attacker1 == r.attacker
        defender_remaining == IF defender1.hp > 0 THEN defender1.hp ELSE 0
        eff4 == get_type_effectiveness4(move.type, defender1)
        report == [ message_type |-> "CALCULATION_REPORT",
                    attacker |-> attacker1.name,
                    move_used |-> move_name,
                    remaining_health |-> attacker1.hp,
                    damage_dealt |-> r.dmg,
                    defender_hp_remaining |-> defender_remaining,
                    status_message |-> EffectivenessMsg(eff4) ]
        wire == [report EXCEPT !.remaining_health = ToStr(@),
                               !.damage_dealt = ToStr(@),
                               !.defender_hp_remaining = ToStr(@)]
        stored == IF c.peer_addr = NoneStr THEN report
                  ELSE With(report, "sequence_number", c.seq + 1)
        c1 == [c EXCEPT !.local_pokemon = IF local_is_attacker THEN attacker1 ELSE defender1,
                        !.remote_pokemon = IF local_is_attacker THEN defender1 ELSE attacker1,
                        !.local_calc_report = stored]
        c2 == sm_send_reliable(c1, wire)
    IN IF defender1.hp <= 1
         THEN sm_send_reliable(c2, [ message_type |-> "GAME_OVER",
                                     winner |-> attacker1.name,
                                     loser |-> defender1.name ])
         ELSE c2

send_calculation_report(c, move_name) ==
  IF c.local_pokemon = None \/ c.remote_pokemon = None THEN Raise(c, "RuntimeError")
  ELSE IF move_name \notin DOMAIN MOVES_DB THEN Raise(c, "RuntimeError")
  ELSE
    LET move == MOVES_DB[move_name]
        local_is_attacker == c.turn_owner = "LOCAL"
        attacker == IF local_is_attacker THEN c.local_pokemon ELSE c.remote_pokemon
        defender == IF local_is_attacker THEN c.remote_pokemon ELSE c.local_pokemon
        r == calculate_damage(attacker, defender, move)
        defender1 == [r.defender EXCEPT !.hp = @ - r.dmg]
        attacker1 == r.attacker
        defender_remaining == IF defender1.hp > 0 THEN defender1.hp ELSE 0
        eff4 == get_type_effectiveness4(move.type, defender1)
        report == [ message_type |-> "CALCULATION_REPORT",
                    attacker |-> attacker1.name,
                    move_used |-> move_name,
                    remaining_health |-> attacker1.hp,
                    damage_dealt |-> r.dmg,
                    defender_hp_remaining |-> defender_remaining,
                    status_message |-> EffectivenessMsg(eff4) ]
        wire == [report EXCEPT !.remaining_health = ToStr(@),
                               !.damage_dealt = ToStr(@),
                               !.defender_hp_remaining = ToStr(@)]
        \* self.local_calc_report and the dict given to send_reliable are one
        \* object: the stored report gains the sequence_number stamped on it
        stored == IF c.peer_addr = NoneStr THEN report
                  ELSE With(report, "sequence_number", c.seq + 1)
        c1 == [c EXCEPT !.local_pokemon = IF local_is_attacker THEN attacker1 ELSE defender1,
                        !.remote_pokemon = IF local_is_attacker THEN defender1 ELSE attacker1,
                        !.local_calc_report = stored]
        c2 == sm_send_reliable(c1, wire)
    IN IF defender1.hp <= 0
         THEN sm_send_reliable(c2, [ message_type |-> "GAME_OVER",
                                     winner |-> attacker1.name,
                                     loser |-> defender1.name ])
         ELSE c2

\* a call inside try/except Exception: its exception does not propagate
Try(c) == IF c.exc = NoneStr THEN c ELSE Caught(c)

Truthy(s) == s # NoneStr /\ s # ""

\* ProtocolStateMachine.tick
sm_tick(c, late) ==
  LET c1 == r_tick(c, late) IN
  IF c1.exc = "ReliabilityError" THEN [Caught(c1) EXCEPT !.running = FALSE]
  ELSE IF c1.role = "SPECTATOR" THEN c1
  ELSE IF c1.state = "PROCESSING_TURN" /\ c1.local_calc_report = None
    THEN LET move == IF c1.turn_owner = "LOCAL" THEN c1.last_announced_move
                     ELSE c1.remote_move
         IN IF Truthy(move) THEN Try(send_calculation_report(c1, move)) ELSE c1
  ELSE c1

send_handshake_request(c) ==
  IF c.role # "JOINER" THEN c
  ELSE IF c.peer_addr = NoneStr THEN c
  ELSE sm_send_reliable(c, [message_type |-> "HANDSHAKE_REQUEST"])

on_handshake_request(c, msg, addr, seed) ==
  IF c.role # "HOST" THEN c
  ELSE LET c1 == [c EXCEPT !.rng_seed = seed, !.peer_addr = addr]
           c2 == sm_send_reliable(c1, [message_type |-> "HANDSHAKE_RESPONSE",
                                       seed |-> ToStr(seed)])
       IN [c2 EXCEPT !.state = "WAITING_FOR_SETUP"]

on_handshake_response(c, msg) ==
  IF c.role # "JOINER" THEN c
  ELSE IF require_fields(msg, <<"seed">>) # NoneStr THEN c
  ELSE IF ~IsIntStr(msg.seed) THEN Raise(c, "ValueError")
  ELSE [c EXCEPT !.rng_seed = ParseInt(msg.seed), !.state = "WAITING_FOR_SETUP"]

Contains(list, x) == \E i \in 1..Len(list) : list[i] = x

on_spectator_request(c, msg, addr) ==
  IF Contains(c.spectators, addr) THEN c
  ELSE [c EXCEPT !.spectators = Append(@, addr)]

\* variant: whoever completes the setup moves first
BattleStart_local_first(c) ==
  IF c.local_pokemon # None /\ c.remote_pokemon # None
    THEN [c EXCEPT !.state = "WAITING_FOR_MOVE", !.turn_owner = "LOCAL"]
    ELSE c

BattleStart(c) ==
  IF c.local_pokemon # None /\ c.remote_pokemon # None
    THEN [c EXCEPT !.state = "WAITING_FOR_MOVE",
                   !.turn_owner = IF c.role = "HOST" THEN "LOCAL" ELSE "REMOTE"]
    ELSE c

send_battle_setup(c, pokemon, stat_boosts) ==
  LET c1 == [c EXCEPT !.local_pokemon = pokemon]
      c2 == sm_send_reliable(c1, [ message_type |-> "BATTLE_SETUP",
                                   communication_mode |-> "P2P",
                                   pokemon_name |-> pokemon.name,
                                   pokemon |-> to_json(pokemon),
                                   stat_boosts |-> stat_boosts,
                                   trainer_name |-> "Player" ])
  IN BattleStart(c2)

on_battle_setup(c, msg) ==
  IF require_fields(msg, <<"pokemon", "pokemon_name">>) # NoneStr THEN c
  ELSE BattleStart([c EXCEPT !.remote_pokemon = from_json(msg.pokemon)])

\* variant: the phase is not looked at
send_attack_any_phase(c, move_name) ==
  IF c.turn_owner # "LOCAL" THEN c
  ELSE LET c1 == [c EXCEPT !.last_announced_move = move_name]
           c2 == sm_send_reliable(c1, [message_type |-> "ATTACK_ANNOUNCE",
                                       move_name |-> move_name])
       IN [c2 EXCEPT !.state = "WAITING_FOR_DEFENSE"]

send_attack(c, move_name) ==
  IF c.turn_owner # "LOCAL" THEN c
  ELSE IF c.state # "WAITING_FOR_MOVE" THEN c
  ELSE LET c1 == [c EXCEPT !.last_announced_move = move_name]
           c2 == sm_send_reliable(c1, [message_type |-> "ATTACK_ANNOUNCE",
                                       move_name |-> move_name])
       IN [c2 EXCEPT !.state = "WAITING_FOR_DEFENSE"]

on_attack_announce(c, msg) ==
  IF require_fields(msg, <<"move_name">>) # NoneStr THEN c
  ELSE LET c1 == [c EXCEPT !.remote_move = msg.move_name] IN
    IF c.role = "SPECTATOR" THEN c1
    ELSE LET c2 == sm_send_reliable(c1, [message_type |-> "DEFENSE_ANNOUNCE"])
             c3 == [c2 EXCEPT !.state = "PROCESSING_TURN"]
         IN Try(send_calculation_report(c3, c3.remote_move))

on_defense_announce(c, msg) ==
  IF c.role = "SPECTATOR" THEN c
  ELSE LET c1 == [c EXCEPT !.state = "PROCESSING_TURN"]
       IN IF Truthy(c1.last_announced_move)
            THEN Try(send_calculation_report(c1, c1.last_announced_move))
            ELSE c1

on_calculation_report(c, msg) ==
  IF require_fields(msg, <<"attacker", "move_used", "damage_dealt",
                           "defender_hp_remaining">>) # NoneStr THEN c
  ELSE LET c1 == [c EXCEPT !.last_calc_report_remote = msg]
           local == c1.local_calc_report
       IN
    IF local = None THEN c1
    ELSE IF ~IsIntStr(msg.damage_dealt) \/ ~IsIntStr(msg.defender_hp_remaining) THEN c1
    ELSE IF local.damage_dealt = ParseInt(msg.damage_dealt)
            /\ local.defender_hp_remaining = ParseInt(msg.defender_hp_remaining)
      THEN sm_send_reliable(c1, [message_type |-> "CALCULATION_CONFIRM"])
      ELSE sm_send_reliable(c1, [ message_type |-> "RESOLUTION_REQUEST",
                                  attacker |-> local.attacker,
                                  move_used |-> local.move_used,
                                  damage_dealt |-> ToStr(local.damage_dealt),
                                  defender_hp_remaining |->
                                      ToStr(local.defender_hp_remaining) ])

\* variant: the turn is handed over but the report buffers are kept
on_calculation_confirm_keep_reports(c, msg) ==
  [c EXCEPT !.turn_owner = Flip(@), !.state = "WAITING_FOR_MOVE"]

on_calculation_confirm(c, msg) ==
  [c EXCEPT !.turn_owner = Flip(@),
            !.local_calc_report = None,
            !.last_calc_report_remote = None,
            !.state = "WAITING_FOR_MOVE"]

on_resolution_request(c, msg) ==
  IF "damage_dealt" \notin DOMAIN msg \/ "defender_hp_remaining" \notin DOMAIN msg THEN c
  ELSE IF ~IsIntStr(msg.damage_dealt) \/ ~IsIntStr(msg.defender_hp_remaining) THEN c
  ELSE
    LET hp == ParseInt(msg.defender_hp_remaining)
        c1 == IF "attacker" \notin DOMAIN msg THEN c
              ELSE IF c.remote_pokemon # None /\ msg.attacker = c.remote_pokemon.name
                THEN IF c.local_pokemon # None
                       THEN [c EXCEPT !.local_pokemon.hp = hp] ELSE c
                ELSE IF c.remote_pokemon # None
                       THEN [c EXCEPT !.remote_pokemon.hp = hp] ELSE c
    IN [c1 EXCEPT !.turn_owner = Flip(@), !.state = "WAITING_FOR_MOVE"]

on_game_over(c, msg) == [c EXCEPT !.running = FALSE]

\* the CHAT_MESSAGE branch of the dispatcher, after _on_chat
chat_relay(c, msg, addr) ==
  IF c.role # "HOST" THEN c
  ELSE LET forward_fields == Without(msg, {"sequence_number", "ack_number"}) IN
    IF c.peer_addr # NoneStr /\ addr # c.peer_addr
      THEN send_reliable(c, forward_fields, c.peer_addr)
      ELSE RelayEach(c, forward_fields, c.spectators)

\* ProtocolStateMachine.send_chat_text: straight to the reliability layer,
\* to peer_addr alone
send_chat_text(c, sender_name, text) ==
  send_reliable(c, [ message_type |-> "CHAT_MESSAGE",
                     sender_name |-> sender_name,
                     content_type |-> "TEXT",
                     message_text |-> text ], c.peer_addr)

\* the ACK branch of the dispatcher: handle_ack(ack_number, addr) is called
\* with the single argument int(ack_num), so the call fails before the body
\* of handle_ack runs.
on_ack(c, msg, addr) ==
  IF ~Truthy(Get(msg, "ack_number")) THEN c
  ELSE IF ~IsIntStr(msg.ack_number) THEN Caught(Raise(c, "ValueError"))
  ELSE Raise(c, "TypeError")

\* variant: the host hands the spectators the datagram as it came in, with
\* the sender's sequence number
RECURSIVE ForwardRaw(_, _, _)
ForwardRaw(c, msg, addrs) ==
  IF addrs = << >> THEN c
  ELSE ForwardRaw(transport_send(c, msg, Head(addrs)), msg, Tail(addrs))

handle_incoming_forward_raw(c, msg, addr, seed) ==
  LET message_type == Get(msg, "message_type")
      c1 == IF c.peer_addr = NoneStr /\ c.role # "SPECTATOR"
              THEN [c EXCEPT !.peer_addr = addr] ELSE c
      c2 == incoming_message(c1, msg, addr)
      c3 == IF c2.role = "HOST" /\ c2.peer_addr # NoneStr /\ addr = c2.peer_addr
               /\ Truthy(message_type) /\ message_type # "ACK"
              THEN ForwardRaw(c2, msg, c2.spectators)
              ELSE c2
  IN CASE message_type = "HANDSHAKE_REQUEST" -> on_handshake_request(c3, msg, addr, seed)
       [] message_type = "HANDSHAKE_RESPONSE" -> on_handshake_response(c3, msg)
       [] message_type = "SPECTATOR_REQUEST" -> on_spectator_request(c3, msg, addr)
       [] message_type = "BATTLE_SETUP" -> on_battle_setup(c3, msg)
       [] message_type = "ATTACK_ANNOUNCE" -> on_attack_announce(c3, msg)
       [] message_type = "DEFENSE_ANNOUNCE" -> on_defense_announce(c3, msg)
       [] message_type = "CALCULATION_REPORT" -> on_calculation_report(c3, msg)
       [] message_type = "CALCULATION_CONFIRM" -> on_calculation_confirm(c3, msg)
       [] message_type = "RESOLUTION_REQUEST" -> on_resolution_request(c3, msg)
       [] message_type = "GAME_OVER" -> on_game_over(c3, msg)
       [] message_type = "CHAT_MESSAGE" -> chat_relay(c3, msg, addr)
       [] message_type = "ACK" -> on_ack(c3, msg, addr)
       [] OTHER -> c3

handle_incoming(c, msg, addr, seed) ==
  LET message_type == Get(msg, "message_type")
      c1 == IF c.peer_addr = NoneStr /\ c.role # "SPECTATOR"
              THEN [c EXCEPT !.peer_addr = addr] ELSE c
      c2 == incoming_message(c1, msg, addr)
      c3 == IF c2.role = "HOST" /\ c2.peer_addr # NoneStr /\ addr = c2.peer_addr
               /\ Truthy(message_type) /\ message_type # "ACK"
              THEN RelayEach(c2, Without(msg, {"sequence_number", "ack_number"}),
                             c2.spectators)
              ELSE c2
  IN CASE message_type = "HANDSHAKE_REQUEST" -> on_handshake_request(c3, msg, addr, seed)
       [] message_type = "HANDSHAKE_RESPONSE" -> on_handshake_response(c3, msg)
       [] message_type = "SPECTATOR_REQUEST" -> on_spectator_request(c3, msg, addr)
       [] message_type = "BATTLE_SETUP" -> on_battle_setup(c3, msg)
       [] message_type = "ATTACK_ANNOUNCE" -> on_attack_announce(c3, msg)
       [] message_type = "DEFENSE_ANNOUNCE" -> on_defense_announce(c3, msg)
       [] message_type = "CALCULATION_REPORT" -> on_calculation_report(c3, msg)
       [] message_type = "CALCULATION_CONFIRM" -> on_calculation_confirm(c3, msg)
       [] message_type = "RESOLUTION_REQUEST" -> on_resolution_request(c3, msg)
       [] message_type = "GAME_OVER" -> on_game_over(c3, msg)
       [] message_type = "CHAT_MESSAGE" -> chat_relay(c3, msg, addr)
       [] message_type = "ACK" -> on_ack(c3, msg, addr)
       [] OTHER -> c3

\* ------------------------------------------------------------------ network and bookkeeping
\* transport.send for each datagram of out, in call order
RECURSIVE AddNet(_, _, _)
AddNet(n, src, out) ==
  IF out = << >> THEN n
  ELSE AddNet([n EXCEPT ![Head(out).dst] = Append(@, [src |-> src, msg |-> Head(out).msg])],
              src, Tail(out))

RemoveAt(q, i) == SubSeq(q, 1, i - 1) \o SubSeq(q, i + 1, Len(q))

HasSeq(msg) == "sequence_number" \in DOMAIN msg /\ IsIntStr(msg.sequence_number)

RECURSIVE TxCount(_, _)
TxCount(t, out) ==
  IF out = << >> THEN t
  ELSE LET o == Head(out)
           k == <<ParseInt(o.msg.sequence_number), o.dst>>
       IN IF ~HasSeq(o.msg) THEN TxCount(t, Tail(out))
          ELSE TxCount((k :> [n |-> IF k \in DOMAIN t THEN t[k].n + 1 ELSE 1,
                                  type |-> Get(o.msg, "message_type")]) @@ t,
                       Tail(out))

Max(a, b) == IF a > b THEN a ELSE b

RECURSIVE SeqMax(_)
SeqMax(q) == IF q = << >> THEN 0 ELSE Max(Head(q), SeqMax(Tail(q)))

NoMsg == [message_type |-> NoneStr]

Event(op, p, src, msg, arg, c) ==
  [op |-> op, p |-> p, src |-> src, msg |-> msg, arg |-> arg, late |-> {},
   out |-> c.out, stamped |-> c.stamped, raised |-> c.raised, exc |-> c.exc]

EnvEvent(op, p) ==
  [op |-> op, p |-> p, src |-> NoneStr, msg |-> NoMsg, arg |-> NoneStr, late |-> {},
   out |-> << >>, stamped |-> << >>, raised |-> << >>, exc |-> NoneStr]

\* peer p ran a handler that left its object as c; n is the network the
\* handler's datagrams are added to, f the fault counters after the step
CommitUpTo(p, c, n, e, rcvd, f, cap) ==
  /\ c.seq <= cap
  /\ sm' = [sm EXCEPT ![p] = Leave(c)]
  /\ net' = AddNet(n, p, c.out)
  /\ ev' = e
  /\ tx' = [tx EXCEPT ![p] = TxCount(@, c.out)]
  /\ seen' = [seen EXCEPT ![p] = Max(Max(@, rcvd), SeqMax(c.stamped))]
  /\ faults' = f
  /\ UNCHANGED th

Commit(p, c, n, e, rcvd, f) == CommitUpTo(p, c, n, e, rcvd, f, MaxSeq)

\* ------------------------------------------------------------------ actions
Init ==
  /\ \E mr \in 0..MaxRetriesArg : sm = [p \in Peers |-> InitPeer(p, mr)]
  /\ net = [p \in Peers |-> << >>]
  /\ ev = EnvEvent("init", NoneStr)
  /\ tx = [p \in Peers |-> << >>]
  /\ seen = [p \in Peers |-> 0]
  /\ faults = [net |-> 0, late |-> 0]
  /\ th = [t \in Threads |-> NoCall]

\* the driver loops of main.py serve a peer once setup() has run and while
\* the state machine is running
Ready(p) == sm[p].running /\ (p = Host \/ sm[p].peer_addr # NoneStr)

\* BattleApplication.setup, role JOINER
JoinerSetup ==
  /\ sm[Joiner].peer_addr = NoneStr
  /\ LET c == send_handshake_request([Enter(Joiner) EXCEPT !.peer_addr = Host])
     IN Commit(Joiner, c, net, Event("setup", Joiner, NoneStr, NoMsg, NoneStr, c),
               0, faults)

\* BattleApplication.setup, role SPECTATOR
SpectatorSetup ==
  /\ sm[Spectator].peer_addr = NoneStr
  /\ LET c == send_reliable([Enter(Spectator) EXCEPT !.peer_addr = Host],
                            [message_type |-> "SPECTATOR_REQUEST"], Host)
     IN Commit(Spectator, c, net,
               Event("setup", Spectator, NoneStr, NoMsg, NoneStr, c), 0, faults)

\* the driver's setup command, given once
SendBattleSetup(p) ==
  /\ Ready(p)
  /\ sm[p].local_pokemon = None
  /\ \E args \in SetupArgs(p) :
       LET c == send_battle_setup(Enter(p), create_pokemon(args[1], args[2], args[3]),
                  [special_attack_uses |-> args[2], special_defense_uses |-> args[3]])
       IN Commit(p, c, net, Event("send_battle_setup", p, NoneStr, NoMsg, args[1], c),
                 0, faults)

\* the driver's attack command, when it does something
SendAttack(p) ==
  /\ Ready(p)
  /\ \E move_name \in MoveNames :
       LET c == send_attack(Enter(p), move_name)
       IN /\ c # Enter(p)
          /\ Commit(p, c, net, Event("send_attack", p, NoneStr, NoMsg, move_name, c),
                    0, faults)

\* the network loop: transport.receive returned the datagram at position i of
\* those on their way to p; i > 1 when it overtook the older ones
Receive(p) ==
  /\ sm[p].running
  /\ \E i \in 1..Len(net[p]) :
       /\ i > 1 => faults.net < MaxNetFaults
       /\ LET d == net[p][i] IN
          \E seed \in 1..MaxSeed :
            /\ (Get(d.msg, "message_type") = "HANDSHAKE_REQUEST" /\ p = Host) \/ seed = 1
            /\ LET c == handle_incoming(Enter(p), d.msg, d.src, seed)
                   rcvd == IF HasSeq(d.msg) THEN ParseInt(d.msg.sequence_number) ELSE 0
               IN Commit(p, c, [net EXCEPT ![p] = RemoveAt(@, i)],
                         Event("handle_incoming", p, d.src, d.msg, NoneStr, c), rcvd,
                         IF i > 1 THEN [faults EXCEPT !.net = @ + 1] ELSE faults)

\* the network loop: state_machine.tick, when it has something to do; either
\* more than timeout has passed since p last sent its pending records, or not.
\* The loop polls receive far more often than the timeout expires, so a tick
\* finds the timeout expired only once the datagrams in flight were taken.
Tick(p) ==
  /\ sm[p].running
  /\ \E late \in {{}, 1..Len(sm[p].pending)} :
       LET c == sm_tick(Enter(p), late)
       IN /\ late # {} => /\ faults.late < MaxLate
                           /\ \A q \in Peers : sm[q].running => net[q] = << >>
          /\ c # Enter(p)
          /\ Commit(p, c, net,
                    [Event("tick", p, NoneStr, NoMsg, NoneStr, c) EXCEPT !.late = late],
                    0, IF late # {} THEN [faults EXCEPT !.late = @ + 1] ELSE faults)

\* the network drops a datagram
Lose(p) ==
  /\ faults.net < MaxNetFaults
  /\ \E i \in 1..Len(net[p]) : net' = [net EXCEPT ![p] = RemoveAt(@, i)]
  /\ faults' = [faults EXCEPT !.net = @ + 1]
  /\ ev' = EnvEvent("lose", p)
  /\ UNCHANGED <<sm, tx, seen, th>>

Battlers == {Host, Joiner}

Next ==
  \/ JoinerSetup
  \/ \E p \in Battlers : SendBattleSetup(p)
  \/ \E p \in Battlers : SendAttack(p)
  \/ \E p \in Battlers : Receive(p)
  \/ \E p \in Battlers : Tick(p)
  \/ \E p \in Battlers : Lose(p)

Spec == Init /\ [][Next]_vars

\* ------------------------------------------------------------------ the reliability layer alone
\* A harness that drives the public methods of ReliabilityLayer directly, as
\* a unit test does: any peer sends to any other, to one destination or to
\* several; what arrives is given to handle_ack(ack_number, addr) when it is
\* an ACK and to incoming_message otherwise; tick finds any of the pending
\* records expired.
LayerPayload == [message_type |-> "CHAT_MESSAGE"]

LayerSent == Cardinality(UNION {{<<p, k>> : k \in DOMAIN tx[p]} : p \in Peers})

LayerSendReliable(p) ==
  /\ sm[p].running
  /\ LayerSent < MaxLayerSends
  /\ \E addr \in Peers \ {p} :
       LET c == send_reliable(Enter(p), LayerPayload, addr)
       IN Commit(p, c, net, Event("send_reliable", p, NoneStr, NoMsg, addr, c), 0, faults)

LayerSendReliableToMany(p) ==
  /\ sm[p].running
  /\ LayerSent + 1 < MaxLayerSends
  /\ \E a \in Peers \ {p} : \E b \in Peers \ {p, a} :
       LET c == send_reliable_to_many(Enter(p), LayerPayload, <<a, b>>)
       IN Commit(p, c, net, Event("send_reliable_to_many", p, NoneStr, NoMsg, a, c),
                 0, faults)

LayerReceive(p) ==
  /\ sm[p].running
  /\ net[p] # << >>
  /\ LET d == Head(net[p])
         isAck == Get(d.msg, "message_type") = "ACK"
         c == IF isAck THEN handle_ack(Enter(p), ParseInt(d.msg.ack_number), d.src)
              ELSE incoming_message(Enter(p), d.msg, d.src)
         rcvd == IF HasSeq(d.msg) THEN ParseInt(d.msg.sequence_number) ELSE 0
     IN Commit(p, c, [net EXCEPT ![p] = Tail(@)],
               Event(IF isAck THEN "handle_ack" ELSE "incoming_message",
                     p, d.src, d.msg, NoneStr, c), rcvd, faults)

LayerTick(p) ==
  /\ sm[p].running
  /\ \E late \in SUBSET (1..Len(sm[p].pending)) :
       LET c == sm_tick(Enter(p), late)
       IN /\ late # {}
          /\ faults.late < sm[p].max_retries + MaxLate
          /\ Commit(p, c, net,
                    [Event("tick", p, NoneStr, NoMsg, NoneStr, c) EXCEPT !.late = late],
                    0, [faults EXCEPT !.late = @ + 1])

NextLayer ==
  \/ \E p \in Peers : LayerSendReliable(p)
  \/ \E p \in Peers : LayerSendReliableToMany(p)
  \/ \E p \in Peers : LayerReceive(p)
  \/ \E p \in Peers : LayerTick(p)
  \/ \E p \in Peers : Lose(p)

SpecLayer == Init /\ [][NextLayer]_vars

\* ------------------------------------------------------------------ a battle on a lossless network
\* Host and joiner; every datagram sent is delivered, though a datagram may
\* overtake older ones; no retransmission timer expires.  The network loop of
\* each peer keeps polling receive and calling tick, so receiving and ticking
\* are weakly fair; the commands typed by the users are not.
TurnTick(p) ==
  /\ sm[p].running
  /\ LET c == sm_tick(Enter(p), {})
     IN /\ c # Enter(p)
        /\ Commit(p, c, net, Event("tick", p, NoneStr, NoMsg, NoneStr, c), 0, faults)

NextTurn ==
  \/ JoinerSetup
  \/ \E p \in Battlers : SendBattleSetup(p)
  \/ \E p \in Battlers : SendAttack(p)
  \/ \E p \in Battlers : Receive(p)
  \/ \E p \in Battlers : TurnTick(p)

SpecTurn ==
  /\ Init
  /\ [][NextTurn]_vars
  /\ \A p \in Battlers : WF_vars(Receive(p)) /\ WF_vars(TurnTick(p))

\* ------------------------------------------------------------------ a battle with a spectator
\* Host, joiner and one spectator on a network that delivers every datagram
\* in order.  The host fields a creature with an ability and the joiner one
\* that a special move knocks out, so that a turn can end in agreement, in
\* disagreement or with a faint; joiner and spectator may each say one line
\* of chat.
WatchSetupArgs(p) == IF p = Host THEN <<"Delta", 0, 0>> ELSE <<"Gamma", 0, 0>>

\* commands come from people at keyboards: one is typed when the datagrams
\* of the previous one have been delivered
Quiet == \A q \in Peers : net[q] = << >>

WatchCommit(p, c, n, e, rcvd) == CommitUpTo(p, c, n, e, rcvd, faults, MaxWatchSeq)

WatchJoinerSetup ==
  /\ Quiet
  /\ sm[Joiner].peer_addr = NoneStr
  /\ LET c == send_handshake_request([Enter(Joiner) EXCEPT !.peer_addr = Host])
     IN WatchCommit(Joiner, c, net, Event("setup", Joiner, NoneStr, NoMsg, NoneStr, c), 0)

WatchSpectatorSetup ==
  /\ Quiet
  /\ sm[Spectator].peer_addr = NoneStr
  /\ LET c == send_reliable([Enter(Spectator) EXCEPT !.peer_addr = Host],
                            [message_type |-> "SPECTATOR_REQUEST"], Host)
     IN WatchCommit(Spectator, c, net,
                    Event("setup", Spectator, NoneStr, NoMsg, NoneStr, c), 0)

WatchSendBattleSetup(p) ==
  /\ Quiet
  /\ Ready(p)
  /\ sm[p].local_pokemon = None
  /\ LET args == WatchSetupArgs(p)
         c == send_battle_setup(Enter(p), create_pokemon(args[1], args[2], args[3]),
                [special_attack_uses |-> args[2], special_defense_uses |-> args[3]])
     IN WatchCommit(p, c, net,
                    Event("send_battle_setup", p, NoneStr, NoMsg, args[1], c), 0)

WatchSendAttack(p) ==
  /\ Quiet
  /\ Ready(p)
  /\ \E move_name \in MoveNames :
       LET c == send_attack(Enter(p), move_name)
       IN /\ c # Enter(p)
          /\ WatchCommit(p, c, net,
                         Event("send_attack", p, NoneStr, NoMsg, move_name, c), 0)

\* BattleApplication._handle_chat, once per peer
WatchChat(p) ==
  /\ Quiet
  /\ Ready(p)
  /\ \A k \in DOMAIN tx[p] : tx[p][k].type # "CHAT_MESSAGE"
  /\ LET c == send_chat_text(Enter(p), "Player", "hi")
     IN WatchCommit(p, c, net, Event("send_chat_text", p, NoneStr, NoMsg, "hi", c), 0)

WatchReceive(p) ==
  /\ sm[p].running
  /\ net[p] # << >>
  /\ LET d == Head(net[p])
         c == handle_incoming(Enter(p), d.msg, d.src, 1)
         rcvd == IF HasSeq(d.msg) THEN ParseInt(d.msg.sequence_number) ELSE 0
     IN WatchCommit(p, c, [net EXCEPT ![p] = Tail(@)],
                    Event("handle_incoming", p, d.src, d.msg, NoneStr, c), rcvd)

NextWatch ==
  \/ WatchJoinerSetup
  \/ WatchSpectatorSetup
  \/ \E p \in Battlers : WatchSendBattleSetup(p)
  \/ \E p \in Battlers : WatchSendAttack(p)
  \/ \E p \in {Joiner, Spectator} : WatchChat(p)
  \/ \E p \in Peers : WatchReceive(p)

SpecWatch == Init /\ [][NextWatch]_vars

\* ------------------------------------------------------------------ the damage engine alone
\* calculate_damage called on creatures and moves as the data loader can
\* supply them: the catalog's, a creature immune to normal moves, one whose
\* defending stats are 0, one with the thick fat ability; the catalog's moves,
\* a status move, a damaging move of power 0 and one whose power scales with
\* the attacker's max_hp.
DamageCatalog ==
  [ Ghost |-> [name |-> "Ghost", max_hp |-> 4, hp |-> 4, attack |-> 30,
               special_attack |-> 30, defense |-> 20, special_defense |-> 20,
               types |-> <<"ghost">>, abilities |-> << >>,
               special_attack_uses |-> 0, special_defense_uses |-> 0,
               effectiveness |-> [normal |-> 0, fire |-> 4]],
    Soft  |-> [name |-> "Soft", max_hp |-> 200, hp |-> 200, attack |-> 3,
               special_attack |-> 3, defense |-> 0, special_defense |-> 0,
               types |-> <<"normal">>, abilities |-> << >>,
               special_attack_uses |-> 0, special_defense_uses |-> 0,
               effectiveness |-> [normal |-> 4, fire |-> 8]],
    Fat   |-> [name |-> "Fat", max_hp |-> 4, hp |-> 4, attack |-> 50,
               special_attack |-> 50, defense |-> 10, special_defense |-> 10,
               types |-> <<"normal">>, abilities |-> <<"thick fat">>,
               special_attack_uses |-> 0, special_defense_uses |-> 0,
               effectiveness |-> [normal |-> 4, fire |-> 4]] ]

DamageMoves ==
  [ Growl  |-> [name |-> "Growl", power |-> 0, damage_category |-> "status",
                type |-> "normal", scale_with_hp |-> FALSE],
    Splash |-> [name |-> "Splash", power |-> 0, damage_category |-> "physical",
                type |-> "fire", scale_with_hp |-> FALSE],
    Flail  |-> [name |-> "Flail", power |-> 0, damage_category |-> "physical",
                type |-> "normal", scale_with_hp |-> TRUE] ]

DamageCreatures ==
  { [k EXCEPT !.special_attack_uses = ua, !.special_defense_uses = ud] :
      k \in {Catalog[n] : n \in DOMAIN Catalog}
             \cup {DamageCatalog[n] : n \in DOMAIN DamageCatalog},
      ua \in 0..MaxUses, ud \in 0..MaxUses }

DamageMoveSet ==
  {MOVES_DB[n] : n \in DOMAIN MOVES_DB} \cup {DamageMoves[n] : n \in DOMAIN DamageMoves}

InitDamage ==
  /\ sm = [p \in Peers |-> InitPeer(p, MaxRetriesArg)]
  /\ net = [p \in Peers |-> << >>]
  /\ \E attacker \in DamageCreatures, defender \in DamageCreatures,
        move \in DamageMoveSet :
       ev = [attacker |-> attacker, defender |-> defender, move |-> move]
            @@ EnvEvent("damage_input", NoneStr)
  /\ tx = [p \in Peers |-> << >>]
  /\ seen = [p \in Peers |-> 0]
  /\ faults = [net |-> 0, late |-> 0]
  /\ th = [t \in Threads |-> NoCall]

Calculate ==
  /\ ev.op = "damage_input"
  /\ LET r == calculate_damage(ev.attacker, ev.defender, ev.move)
     IN ev' = [attacker |-> ev.attacker, defender |-> ev.defender, move |-> ev.move,
               dmg |-> r.dmg, attacker_after |-> r.attacker,
               defender_after |-> r.defender]
              @@ EnvEvent("calculate_damage", NoneStr)
  /\ UNCHANGED <<sm, net, tx, seen, faults, th>>

NextDamage == Calculate

SpecDamage == InitDamage /\ [][NextDamage]_vars

\* ------------------------------------------------------------------ the codec alone
\* encode_message and decode_message on texts kept as sequences of
\* characters.  A mapping is the sequence of its <<key, value>> pairs in
\* insertion order, keys distinct.
NL == "\n"

KeyChars == {"k", "j", ":"}

ValChars == {"a", " ", ":", NL}

SeqsUpTo(S, lo, hi) == UNION {[1..n -> S] : n \in lo..hi}

RECURSIVE ToMap(_)
ToMap(pairs) ==
  IF pairs = << >> THEN << >>
  ELSE LET last == pairs[Len(pairs)]
       IN (last[1] :> last[2]) @@ ToMap(SubSeq(pairs, 1, Len(pairs) - 1))

\* str.replace("\n", " ")
ReplaceNewlines(v) == [i \in 1..Len(v) |-> IF v[i] = NL THEN " " ELSE v[i]]

RECURSIVE JoinLines(_)
JoinLines(lines) ==
  IF lines = << >> THEN << >>
  ELSE IF Len(lines) = 1 THEN lines[1]
  ELSE lines[1] \o <<NL>> \o JoinLines(Tail(lines))

encode_message(fields) ==
  IF \E i \in 1..Len(fields) : \E j \in 1..Len(fields[i][1]) : fields[i][1][j] = ":"
    THEN [exc |-> "ValueError", data |-> << >>]
    ELSE [exc |-> NoneStr,
          data |-> JoinLines([i \in 1..Len(fields) |->
                     fields[i][1] \o <<":", " ">> \o ReplaceNewlines(fields[i][2])])]

\* the first position at which pat occurs in text, or 0
Find(text, pat) ==
  LET hits == {i \in 1..(Len(text) - Len(pat) + 1) :
                 SubSeq(text, i, i + Len(pat) - 1) = pat}
  IN IF hits = {} THEN 0 ELSE CHOOSE i \in hits : \A j \in hits : i <= j

\* str.splitlines
RECURSIVE splitlines(_)
splitlines(text) ==
  IF text = << >> THEN << >>
  ELSE LET i == Find(text, <<NL>>)
       IN IF i = 0 THEN <<text>>
          ELSE <<SubSeq(text, 1, i - 1)>> \o splitlines(SubSeq(text, i + 1, Len(text)))

IsSpace(ch) == ch = " " \/ ch = NL

\* str.strip
RECURSIVE strip(_)
strip(t) ==
  IF t = << >> THEN t
  ELSE IF IsSpace(t[1]) THEN strip(Tail(t))
  ELSE IF IsSpace(t[Len(t)]) THEN strip(SubSeq(t, 1, Len(t) - 1))
  ELSE t

\* the loop of decode_message over the lines: the mapping built so far, or
\* the exception raised
RECURSIVE DecodeLines(_, _)
DecodeLines(lines, msg) ==
  IF lines = << >> THEN [exc |-> NoneStr, msg |-> msg]
  ELSE LET raw == Head(lines)
           i == Find(raw, <<":", " ">>)
           j == Find(raw, <<":">>)
       IN IF strip(raw) = << >> THEN DecodeLines(Tail(lines), msg)
          ELSE IF i # 0
            THEN DecodeLines(Tail(lines),
                   (strip(SubSeq(raw, 1, i - 1)) :> strip(SubSeq(raw, i + 2, Len(raw))))
                     @@ msg)
          ELSE IF j # 0
            THEN DecodeLines(Tail(lines),
                   (strip(SubSeq(raw, 1, j - 1)) :> strip(SubSeq(raw, j + 1, Len(raw))))
                     @@ msg)
          ELSE [exc |-> "MessageParseError", msg |-> msg]

decode_message(data) ==
  IF data = << >> THEN [exc |-> NoneStr, msg |-> << >>]
  ELSE DecodeLines(splitlines(data), << >>)

CodecMappings ==
  { fields \in SeqsUpTo(SeqsUpTo(KeyChars, 1, MaxKeyLen) \X SeqsUpTo(ValChars, 0, MaxValLen),
                        0, MaxFields) :
      \A i, j \in 1..Len(fields) : i # j => fields[i][1] # fields[j][1] }

InitCodec ==
  /\ sm = [p \in Peers |-> InitPeer(p, MaxRetriesArg)]
  /\ net = [p \in Peers |-> << >>]
  /\ \E fields \in CodecMappings :
       ev = [fields |-> fields] @@ EnvEvent("codec_input", NoneStr)
  /\ tx = [p \in Peers |-> << >>]
  /\ seen = [p \in Peers |-> 0]
  /\ faults = [net |-> 0, late |-> 0]
  /\ th = [t \in Threads |-> NoCall]

Encode ==
  /\ ev.op = "codec_input"
  /\ LET r == encode_message(ev.fields)
     IN ev' = [[fields |-> ev.fields, data |-> r.data]
                 @@ EnvEvent("encode_message", NoneStr) EXCEPT !.exc = r.exc]
  /\ UNCHANGED <<sm, net, tx, seen, faults, th>>

Decode ==
  /\ ev.op = "encode_message"
  /\ ev.exc = NoneStr
  /\ LET r == decode_message(ev.data)
     IN ev' = [[fields |-> ev.fields, data |-> ev.data, decoded |-> r.msg]
                 @@ EnvEvent("decode_message", NoneStr) EXCEPT !.exc = r.exc]
  /\ UNCHANGED <<sm, net, tx, seen, faults, th>>

NextCodec == Encode \/ Decode

SpecCodec == InitCodec /\ [][NextCodec]_vars

\* ------------------------------------------------------------------ properties
IsAck(msg) == Get(msg, "message_type") = "ACK"

PendingKey(e) == <<e.seq, e.addr>>

\* C1: when handle_incoming has processed an ACK with ack_number n received
\* from address a, no record (n, a) is pending any more.
C1_AckRemovesPending ==
  (ev.op = "handle_incoming" /\ IsAck(ev.msg) /\ IsIntStr(Get(ev.msg, "ack_number")))
    => PendingIndex(sm[ev.p].pending, ParseInt(ev.msg.ack_number), ev.src) = 0

\* C2: a tick raises ReliabilityError exactly when a record whose timeout has
\* expired has already been retransmitted max_retries times; the record is
\* then not put on the wire again (with max_retries = 0 it was sent once and
\* never retransmitted) and the state machine's tick sets running to FALSE.
\* A tick that does not raise retransmits every expired record once, counts
\* the retry and leaves running alone.
C2_RetryExhaustion ==
  [][ev'.op = "tick" =>
       LET p == ev'.p
           pend == sm[p].pending
           mr == sm[p].max_retries
           due == {i \in ev'.late : i <= Len(pend)}
           spent == {i \in due : pend[i].retries >= mr}
           raised == Contains(ev'.raised, "ReliabilityError")
       IN /\ raised <=> spent # {}
          /\ raised =>
               /\ ~sm'[p].running
               /\ \A i \in spent :
                    /\ pend[i].retries = mr
                    /\ tx[p][PendingKey(pend[i])].n = 1 + mr
                    /\ tx'[p][PendingKey(pend[i])].n = 1 + mr
          /\ ~raised =>
               /\ sm'[p].running = sm[p].running
               /\ Len(sm'[p].pending) = Len(pend)
               /\ \A i \in due :
                    /\ sm'[p].pending[i].retries = pend[i].retries + 1
                    /\ tx'[p][PendingKey(pend[i])].n = tx[p][PendingKey(pend[i])].n + 1
     ]_vars

C2_Witness ==
  /\ ev.op = "tick"
  /\ Contains(ev.raised, "ReliabilityError")
  /\ sm[ev.p].max_retries >= 1
  /\ ~sm[ev.p].running
  /\ \E i \in ev.late : tx[ev.p][PendingKey(sm[ev.p].pending[i])].n
                            = 1 + sm[ev.p].max_retries

\* C3: every pending record has 0 <= retries <= max_retries, and no stamped
\* message has been put on the wire more than 1 + max_retries times for one
\* destination.
C3_RetryBounds ==
  \A p \in Peers :
    /\ \A i \in 1..Len(sm[p].pending) :
         /\ sm[p].pending[i].retries >= 0
         /\ sm[p].pending[i].retries <= sm[p].max_retries
    /\ \A k \in DOMAIN tx[p] : tx[p][k].n <= 1 + sm[p].max_retries

C3_Witness ==
  \E p \in Peers : \E i \in 1..Len(sm[p].pending) :
    /\ sm[p].max_retries >= 1
    /\ sm[p].pending[i].retries = sm[p].max_retries
    /\ tx[p][PendingKey(sm[p].pending[i])].n = 1 + sm[p].max_retries

\* C6: pending records are keyed by (sequence number, destination): a send to
\* several destinations stamps one sequence number and adds one record per
\* destination under it, and an ACK n from address a removes the record
\* (n, a) and no other.
C6_PendingKeyedBySeqAndDest ==
  [][LET p == ev'.p
         pend == sm[p].pending
         pend1 == sm'[p].pending
     IN /\ ev'.op = "send_reliable_to_many" =>
             /\ Len(ev'.stamped) = 1
             /\ Len(pend1) = Len(pend) + Len(ev'.out)
             /\ SubSeq(pend1, 1, Len(pend)) = pend
             /\ Len(ev'.out) = 2
             /\ ev'.out[1].dst # ev'.out[2].dst
             /\ \A j \in 1..Len(ev'.out) :
                  /\ pend1[Len(pend) + j].seq = ev'.stamped[1]
                  /\ pend1[Len(pend) + j].addr = ev'.out[j].dst
                  /\ pend1[Len(pend) + j].retries = 0
                  /\ ev'.out[j].msg.sequence_number = ToStr(ev'.stamped[1])
        /\ ev'.op = "handle_ack" =>
             LET n == ParseInt(ev'.msg.ack_number)
             IN pend1 = SelectSeq(pend, LAMBDA e : ~(e.seq = n /\ e.addr = ev'.src))
        /\ \A i, j \in 1..Len(pend1) :
             PendingKey(pend1[i]) = PendingKey(pend1[j]) => i = j
    ]_vars

C6_Witness ==
  /\ ev.op = "handle_ack"
  /\ LET n == ParseInt(ev.msg.ack_number)
     IN /\ <<n, ev.src>> \in DOMAIN tx[ev.p]
        /\ PendingIndex(sm[ev.p].pending, n, ev.src) = 0
        /\ \E i \in 1..Len(sm[ev.p].pending) :
             sm[ev.p].pending[i].seq = n /\ sm[ev.p].pending[i].addr # ev.src

AcksIn(out) == {j \in 1..Len(out) : IsAck(out[j].msg)}

\* what handle_incoming answers to datagram msg from src, given what it sent
OneAckFor(msg, src, out) ==
  IF HasSeq(msg)
    THEN /\ Cardinality(AcksIn(out)) = 1
         /\ \A j \in AcksIn(out) :
              /\ out[j].dst = src
              /\ out[j].msg.ack_number = ToStr(ParseInt(msg.sequence_number))
    ELSE AcksIn(out) = {}

\* The peers' own traffic carries an integer sequence number or, on ACKs,
\* none; a datagram whose sequence number is no integer comes from elsewhere
MalformedDatagrams ==
  { [message_type |-> "CHAT_MESSAGE", sequence_number |-> "x"] }

\* C4: for a datagram that carries an integer sequence_number,
\* handle_incoming sends exactly one ACK, to the sender, with that number as
\* ack_number; for any other datagram it sends none. An ACK carries no
\* sequence_number and no pending record holds one.
C4_OneAckPerSequencedDatagram ==
  /\ ev.op = "handle_incoming" => OneAckFor(ev.msg, ev.src, ev.out)
  /\ \A j \in AcksIn(ev.out) : "sequence_number" \notin DOMAIN ev.out[j].msg
  /\ \A p \in Peers : \A i \in 1..Len(sm[p].pending) : ~IsAck(sm[p].pending[i].msg)
  /\ \A p \in Battlers : \A d \in MalformedDatagrams :
       AcksIn(handle_incoming(Enter(p), d, Spectator, 1).out) = {}

C4_Witness ==
  /\ ev.op = "handle_incoming"
  /\ HasSeq(ev.msg)
  /\ Cardinality(AcksIn(ev.out)) = 1
  /\ Len(ev.out) > 1

\* C5: a peer's sequence counter never decreases; once a handler has
\* processed a datagram with sequence number s the counter is at least s; and
\* every number a handler stamps is greater than every number the peer
\* stamped or received before, the one just received included.
C5_SequenceMonotone ==
  [][/\ \A p \in Peers : sm'[p].seq >= sm[p].seq
     /\ (ev'.op \in {"handle_incoming", "incoming_message"} /\ HasSeq(ev'.msg))
          => sm'[ev'.p].seq >= ParseInt(ev'.msg.sequence_number)
     /\ \A i \in 1..Len(ev'.stamped) :
          /\ ev'.stamped[i] > seen[ev'.p]
          /\ HasSeq(ev'.msg) => ev'.stamped[i] > ParseInt(ev'.msg.sequence_number)
          /\ i > 1 => ev'.stamped[i] > ev'.stamped[i - 1]
          /\ sm'[ev'.p].seq >= ev'.stamped[i]
    ]_vars

C5_Witness ==
  /\ ev.op = "handle_incoming"
  /\ HasSeq(ev.msg)
  /\ ev.stamped # << >>
  /\ ev.stamped[1] = ParseInt(ev.msg.sequence_number) + 1
  /\ \A k \in DOMAIN tx[ev.p] : k[1] # ParseInt(ev.msg.sequence_number)

HandshakeTypes == {"HANDSHAKE_REQUEST", "HANDSHAKE_RESPONSE"}

\* the joiner has sent its request, no copy of a handshake message is on its
\* way any more, and each side has processed one at least
HandshakeQuiesced ==
  /\ sm[Joiner].peer_addr # NoneStr
  /\ \A p \in Peers : \A i \in 1..Len(net[p]) :
       Get(net[p][i].msg, "message_type") \notin HandshakeTypes
  /\ sm[Host].rng_seed # 0
  /\ sm[Joiner].rng_seed # 0

\* C7: once the handshake exchange has quiesced, host and joiner are both in
\* WAITING_FOR_SETUP or a later phase and the seed the joiner applied last is
\* the seed the host applied last.
C7_HandshakeAgreement ==
  HandshakeQuiesced =>
    /\ sm[Host].state # "SETUP"
    /\ sm[Joiner].state # "SETUP"
    /\ sm[Joiner].rng_seed = sm[Host].rng_seed

HoldsBoth(p) == sm[p].local_pokemon # None /\ sm[p].remote_pokemon # None

\* C8: the step in which a battler comes to hold both its own creature and
\* the remote one leaves it in WAITING_FOR_MOVE with turn_owner LOCAL on the
\* host and REMOTE on the joiner, and no battler is in WAITING_FOR_MOVE
\* before it holds both.
C8_BattleStart ==
  [][\A p \in Battlers :
       /\ (~HoldsBoth(p) /\ HoldsBoth(p)') =>
            /\ sm'[p].state = "WAITING_FOR_MOVE"
            /\ sm'[p].turn_owner = IF p = Host THEN "LOCAL" ELSE "REMOTE"
            /\ ev'.p = p
            /\ \/ ev'.op = "send_battle_setup"
               \/ ev'.op = "handle_incoming" /\ ev'.msg.message_type = "BATTLE_SETUP"
       /\ sm'[p].state = "WAITING_FOR_MOVE" => HoldsBoth(p)'
       /\ ~HoldsBoth(p)' => sm'[p].turn_owner = NoneStr
    ]_vars

C8_Witness ==
  /\ ev.op = "send_battle_setup"
  /\ ev.p = Joiner
  /\ HoldsBoth(Joiner)
  /\ sm[Joiner].state = "WAITING_FOR_MOVE"
  /\ sm[Joiner].turn_owner = "REMOTE"

\* C9: send_attack called with turn_owner LOCAL in WAITING_FOR_MOVE sends
\* ATTACK_ANNOUNCE to the peer, records last_announced_move and moves to
\* WAITING_FOR_DEFENSE, changing nothing else of the session; called in any
\* other state it sends nothing and changes nothing.
C9_SendAttackGuard ==
  \A p \in Battlers : \A move_name \in MoveNames :
    LET c0 == Enter(p)
        c == send_attack(c0, move_name)
    IN IF c0.turn_owner = "LOCAL" /\ c0.state = "WAITING_FOR_MOVE"
         THEN /\ c.out # << >>
              /\ c.out[1].dst = c0.peer_addr
              /\ \A j \in 1..Len(c.out) :
                   /\ c.out[j].msg.message_type = "ATTACK_ANNOUNCE"
                   /\ c.out[j].msg.move_name = move_name
              /\ c.last_announced_move = move_name
              /\ c.state = "WAITING_FOR_DEFENSE"
              /\ [c EXCEPT !.out = << >>, !.stamped = << >>, !.seq = c0.seq,
                           !.pending = c0.pending]
                   = [c0 EXCEPT !.last_announced_move = move_name,
                                !.state = "WAITING_FOR_DEFENSE"]
         ELSE c = c0

C9_Witness ==
  /\ ev.op = "send_attack"
  /\ ev.out # << >>
  /\ ev.out[1].msg.message_type = "ATTACK_ANNOUNCE"
  /\ sm[ev.p].state = "WAITING_FOR_DEFENSE"
  /\ sm[ev.p].last_announced_move = ev.arg

\* the battler holds its own report and the remote one, and the two agree
HoldsMatchingReports(p) ==
  LET local == sm[p].local_calc_report
      remote == sm[p].last_calc_report_remote
  IN /\ local # None
     /\ remote # None
     /\ IsIntStr(remote.damage_dealt)
     /\ IsIntStr(remote.defender_hp_remaining)
     /\ local.damage_dealt = ParseInt(remote.damage_dealt)
     /\ local.defender_hp_remaining = ParseInt(remote.defender_hp_remaining)

\* the battler has sent a CALCULATION_CONFIRM since it produced its report
SentConfirmSinceReport(p) ==
  \E k \in DOMAIN tx[p] :
    /\ tx[p][k].type = "CALCULATION_CONFIRM"
    /\ k[1] > sm[p].local_calc_report.sequence_number

\* C10: a battler that holds both reports of the turn, agreeing, sends
\* CALCULATION_CONFIRM for them: it does not let go of the two reports
\* without having sent it, in whichever order the two came to be held.
C10_ConfirmWhenReportsMatch ==
  [][\A p \in Battlers :
       (HoldsMatchingReports(p) /\ ~HoldsMatchingReports(p)')
         => SentConfirmSinceReport(p)
    ]_vars

IsConfirmEvent(e) ==
  e.op = "handle_incoming" /\ Get(e.msg, "message_type") = "CALCULATION_CONFIRM"

Opposite(t, u) == (t = "LOCAL" /\ u = "REMOTE") \/ (t = "REMOTE" /\ u = "LOCAL")

IsResolutionEvent(e) ==
  e.op = "handle_incoming" /\ Get(e.msg, "message_type") = "RESOLUTION_REQUEST"

IsReportEvent(e) ==
  e.op = "handle_incoming" /\ Get(e.msg, "message_type") = "CALCULATION_REPORT"

SameHp(a, b) == (a = None /\ b = None) \/ (a # None /\ b # None /\ a.hp = b.hp)

Emits(e, type) ==
  \E i \in 1..Len(e.out) : Get(e.out[i].msg, "message_type") = type

C12_AttackerSoleAuthority ==
  [][ /\ (IsReportEvent(ev') /\ ev'.p \in Battlers /\ Emits(ev', "RESOLUTION_REQUEST"))
          => sm[ev'.p].turn_owner = "LOCAL"
      /\ (IsResolutionEvent(ev') /\ ev'.p \in Battlers
             /\ sm[ev'.p].turn_owner = "LOCAL")
          => LET p == ev'.p
             IN /\ sm'[p].turn_owner = sm[p].turn_owner
                /\ SameHp(sm'[p].local_pokemon, sm[p].local_pokemon)
                /\ SameHp(sm'[p].remote_pokemon, sm[p].remote_pokemon)
    ]_vars

\* C13: once a turn whose two reports disagreed is resolved (each battler's
\* RESOLUTION_REQUEST sent, delivered and processed, no new move begun), both
\* battlers hold the same hp for the defending creature, equal to the
\* defender_hp_remaining the attacker reported, and their turn_owner values
\* are complementary.
Other(p) == IF p = Host THEN Joiner ELSE Host

ReportsDisagree(p) ==
  LET local == sm[p].local_calc_report
      remote == sm[p].last_calc_report_remote
  IN /\ local # None /\ remote # None
     /\ \/ local.damage_dealt # ParseInt(remote.damage_dealt)
        \/ local.defender_hp_remaining # ParseInt(remote.defender_hp_remaining)

SentType(p, type) == \E k \in DOMAIN tx[p] : tx[p][k].type = type

InFlight(p, type) ==
  \E i \in 1..Len(net[p]) : Get(net[p][i].msg, "message_type") = type

TurnResolved ==
  \A p \in Battlers :
    /\ sm[p].running
    /\ sm[p].state = "WAITING_FOR_MOVE"
    /\ ReportsDisagree(p)
    /\ SentType(p, "RESOLUTION_REQUEST")
    /\ ~InFlight(p, "RESOLUTION_REQUEST")

IsAttacker(p) ==
  sm[p].local_calc_report.attacker = sm[p].local_pokemon.name

C13_ResolvedTurnAgrees ==
  TurnResolved =>
    \E a \in Battlers :
      LET d == Other(a)
      IN /\ IsAttacker(a)
         /\ sm[a].remote_pokemon.hp = sm[d].local_pokemon.hp
         /\ sm[d].local_pokemon.hp = sm[a].local_calc_report.defender_hp_remaining
         /\ Opposite(sm[a].turn_owner, sm[d].turn_owner)

\* C14: a battler whose damage calculation brings the defender to hp <= 0
\* sends GAME_OVER naming the attacker as winner and the defender as loser and
\* clears its own running flag; a peer that receives GAME_OVER clears its
\* running flag.
IsGameOverEvent(e) ==
  e.op = "handle_incoming" /\ Get(e.msg, "message_type") = "GAME_OVER"

Fainted(k) == k # None /\ k.hp <= 0

CausedFaint(p) ==
  /\ ~Fainted(sm[p].local_pokemon) /\ ~Fainted(sm[p].remote_pokemon)
  /\ Fainted(sm'[p].local_pokemon) \/ Fainted(sm'[p].remote_pokemon)

C14_GameOverStopsBothSides ==
  [][ /\ (ev'.p \in Battlers /\ CausedFaint(ev'.p))
          => LET p == ev'.p
                 attacker == IF sm[p].turn_owner = "LOCAL" THEN sm[p].local_pokemon
                             ELSE sm[p].remote_pokemon
                 defender == IF sm[p].turn_owner = "LOCAL" THEN sm[p].remote_pokemon
                             ELSE sm[p].local_pokemon
             IN /\ \E i \in 1..Len(ev'.out) :
                     /\ Get(ev'.out[i].msg, "message_type") = "GAME_OVER"
                     /\ ev'.out[i].msg.winner = attacker.name
                     /\ ev'.out[i].msg.loser = defender.name
                /\ ~sm'[p].running
      /\ IsGameOverEvent(ev') => ~sm'[ev'.p].running
    ]_vars

\* C15: after every message processed and every command, each creature a peer
\* holds (its own and its copy of the remote one) has 0 <= hp <= max_hp.
HpInRange(k) == k = None \/ (0 <= k.hp /\ k.hp <= k.max_hp)

C15_HpWithinBounds ==
  \A p \in Peers : HpInRange(sm[p].local_pokemon) /\ HpInRange(sm[p].remote_pokemon)

\* C16: for each creature a peer holds, special_attack_uses and
\* special_defense_uses never increase and never become negative, whatever
\* messages (retransmitted BATTLE_SETUP or ATTACK_ANNOUNCE included) are
\* processed.
UsesNotRaised(old, new) ==
  (old # None /\ new # None /\ old.name = new.name) =>
    /\ new.special_attack_uses <= old.special_attack_uses
    /\ new.special_defense_uses <= old.special_defense_uses

UsesNotNegative(k) ==
  k # None => (k.special_attack_uses >= 0 /\ k.special_defense_uses >= 0)

C16_SpecialUsesMonotone ==
  [][ \A p \in Peers :
        /\ UsesNotRaised(sm[p].local_pokemon, sm'[p].local_pokemon)
        /\ UsesNotRaised(sm[p].remote_pokemon, sm'[p].remote_pokemon)
        /\ UsesNotNegative(sm'[p].local_pokemon)
        /\ UsesNotNegative(sm'[p].remote_pokemon)
    ]_vars

\* C17: a peer in role SPECTATOR never runs the damage engine and never
\* changes its phase or turn_owner when it processes a relayed BATTLE_SETUP,
\* ATTACK_ANNOUNCE, DEFENSE_ANNOUNCE, CALCULATION_REPORT, CALCULATION_CONFIRM,
\* RESOLUTION_REQUEST or GAME_OVER.
BattleTypes ==
  { "BATTLE_SETUP", "ATTACK_ANNOUNCE", "DEFENSE_ANNOUNCE", "CALCULATION_REPORT",
    "CALCULATION_CONFIRM", "RESOLUTION_REQUEST", "GAME_OVER" }

C17_SpectatorReadOnly ==
  [][ ( /\ ev'.op = "handle_incoming"
        /\ ev'.p = Spectator
        /\ Get(ev'.msg, "message_type") \in BattleTypes )
      => /\ sm'[Spectator].state = sm[Spectator].state
         /\ sm'[Spectator].turn_owner = sm[Spectator].turn_owner
         /\ sm'[Spectator].local_calc_report = sm[Spectator].local_calc_report
         /\ ~Emits(ev', "CALCULATION_REPORT")
    ]_vars

\* C18: in every reachable state a spectator originates no battle message:
\* no call of send_attack, send_battle_setup or tick makes it emit
\* ATTACK_ANNOUNCE, BATTLE_SETUP, DEFENSE_ANNOUNCE, CALCULATION_REPORT,
\* CALCULATION_CONFIRM, RESOLUTION_REQUEST or GAME_OVER.
NoBattleMessage(c) ==
  \A i \in 1..Len(c.out) : Get(c.out[i].msg, "message_type") \notin BattleTypes

C18_SpectatorSendsNoBattleMessage ==
  LET c0 == Enter(Spectator)
  IN /\ \A move_name \in MoveNames : NoBattleMessage(send_attack(c0, move_name))
     /\ \A name \in CreatureNames :
          NoBattleMessage(send_battle_setup(c0, create_pokemon(name, 0, 0),
                            [special_attack_uses |-> 0, special_defense_uses |-> 0]))
     /\ NoBattleMessage(sm_tick(c0, {}))

\* C19: for every non-ACK message the host receives from the battling peer's
\* address, it sends to each address in its spectator set a copy whose fields
\* are the original's minus sequence_number and ack_number, stamped with a
\* sequence number freshly drawn from the host's counter for that destination.
ReliabilityKeys == {"sequence_number", "ack_number"}

IsRelayedCopy(o, msg, dst) ==
  /\ o.dst = dst
  /\ HasSeq(o.msg)
  /\ Without(o.msg, ReliabilityKeys) = Without(msg, ReliabilityKeys)

IsChatEvent(e) ==
  e.op = "handle_incoming" /\ Get(e.msg, "message_type") = "CHAT_MESSAGE"

C20_ChatRelay ==
  [][ (IsChatEvent(ev') /\ ev'.p = Host) =>
        LET spectators == sm[Host].spectators
            peer == sm'[Host].peer_addr
        IN IF Contains(spectators, ev'.src)
             THEN /\ ~Contains(spectators, peer)
                  /\ \E j \in 1..Len(ev'.out) : IsRelayedCopy(ev'.out[j], ev'.msg, peer)
             ELSE \A i \in 1..Len(spectators) :
                    \E j \in 1..Len(ev'.out) :
                      IsRelayedCopy(ev'.out[j], ev'.msg, spectators[i])
    ]_vars

\* C21: delivering the same sequenced message to a peer a second time
\* produces one additional ACK and leaves phase, turn_owner, both creatures'
\* hp and uses counters, the seed and the per-turn report buffers as they were
\* after the first delivery, for each of HANDSHAKE_REQUEST, BATTLE_SETUP,
\* ATTACK_ANNOUNCE, DEFENSE_ANNOUNCE, CALCULATION_REPORT, CALCULATION_CONFIRM
\* and RESOLUTION_REQUEST.
DuplicableTypes ==
  { "HANDSHAKE_REQUEST", "BATTLE_SETUP", "ATTACK_ANNOUNCE", "DEFENSE_ANNOUNCE",
    "CALCULATION_REPORT", "CALCULATION_CONFIRM", "RESOLUTION_REQUEST" }

CreatureView(k) ==
  IF k = None THEN None
  ELSE [hp |-> k.hp, special_attack_uses |-> k.special_attack_uses,
        special_defense_uses |-> k.special_defense_uses]

SessionView(c) ==
  [ state |-> c.state,
    turn_owner |-> c.turn_owner,
    local_pokemon |-> CreatureView(c.local_pokemon),
    remote_pokemon |-> CreatureView(c.remote_pokemon),
    rng_seed |-> c.rng_seed,
    local_calc_report |-> c.local_calc_report,
    last_calc_report_remote |-> c.last_calc_report_remote ]

AckCount(out) == Cardinality({i \in 1..Len(out) : IsAck(out[i].msg)})

SeedsFor(p, msg) ==
  IF Get(msg, "message_type") = "HANDSHAKE_REQUEST" /\ p = Host THEN 1..MaxSeed ELSE {1}

C21_DuplicateDeliveryIdempotent ==
  ( /\ ev.op = "handle_incoming"
    /\ ev.p \in Battlers
    /\ sm[ev.p].running
    /\ HasSeq(ev.msg)
    /\ Get(ev.msg, "message_type") \in DuplicableTypes )
  => \A seed \in SeedsFor(ev.p, ev.msg) :
       LET c0 == Enter(ev.p)
           c == handle_incoming(c0, ev.msg, ev.src, seed)
       IN /\ AckCount(c.out) = 1
          /\ SessionView(c) = SessionView(c0)

\* C22: a received message that lacks a field required for its type
\* (GAME_OVER without winner and loser, RESOLUTION_REQUEST without attacker,
\* BATTLE_SETUP without pokemon, ATTACK_ANNOUNCE without move_name) makes the
\* handler return without changing the session: phase, turn_owner, creatures
\* and running stay as they were.
IncompleteDatagrams ==
  { [message_type |-> "GAME_OVER"],
    [message_type |-> "RESOLUTION_REQUEST", move_used |-> "Tackle",
     damage_dealt |-> "1", defender_hp_remaining |-> "1"],
    [message_type |-> "BATTLE_SETUP", pokemon_name |-> "Beta"],
    [message_type |-> "ATTACK_ANNOUNCE"] }

SessionState(c) ==
  [ state |-> c.state, turn_owner |-> c.turn_owner,
    local_pokemon |-> c.local_pokemon, remote_pokemon |-> c.remote_pokemon,
    running |-> c.running ]

C22_IncompleteMessageIgnored ==
  \A p \in Battlers : \A msg \in IncompleteDatagrams :
    LET c0 == Enter(p)
        c == handle_incoming(c0, msg, Other(p), 1)
    IN sm[p].running => SessionState(c) = SessionState(c0)

\* C23: a battler asked to calculate damage while its local or its remote
\* creature is missing ends the session (running becomes false); it does not
\* stay in PROCESSING_TURN retrying the calculation.
CreatureMissing(c) == c.local_pokemon = None \/ c.remote_pokemon = None

C23_MissingCreatureEndsSession ==
  [][ ( /\ ev'.p \in Battlers
        /\ Contains(ev'.raised, "RuntimeError")
        /\ CreatureMissing(sm'[ev'.p]) )
      => ~sm'[ev'.p].running
    ]_vars

\* C24: for a non-status move, when the defender's effectiveness multiplier
\* for the move's type is 0, calculate_damage returns 0 whatever the power and
\* the stats.
IsDamageEvent(e) == e.op = "calculate_damage"

C24_ZeroEffectivenessZeroDamage ==
  ( /\ IsDamageEvent(ev)
    /\ ev.move.damage_category # "status"
    /\ get_type_effectiveness4(ev.move.type, ev.defender) = 0 )
  => ev.dmg = 0

\* C25: calculate_damage returns 0 for a status move and otherwise
\* max(1, floor(p * atkStat * eff / max(defStat, 1))), p being the effective
\* power: a non-status move of power 0 and non-zero effectiveness yields
\* exactly 1, and a defending stat below 1 counts as 1.
\* The stats are taken in tenths, the power in halves, the multiplier in
\* eighths: the quotient is DamageNum / DamageDen.
AtkStat10(a, m) ==
  IF m.damage_category = "physical"
    THEN (IF HasAbility(a, "huge power") THEN 20 ELSE 10) * a.attack
    ELSE (IF a.special_attack_uses > 0 THEN 13 ELSE 10) * a.special_attack

DefStat10(d, m) ==
  IF m.damage_category = "physical" THEN 10 * d.defense
  ELSE (IF d.special_defense_uses > 0 THEN 13 ELSE 10) * d.special_defense

Eff8(d, m) ==
  LET e4 == get_type_effectiveness4(m.type, d)
  IN IF HasAbility(d, "thick fat") /\ m.type \in {"fire", "ice"} THEN e4 ELSE 2 * e4

DamageNum(e) ==
  get_effective_move_power2(e.move, e.attacker) * AtkStat10(e.attacker, e.move)
    * Eff8(e.defender, e.move)

DamageDen(e) == 16 * Max(DefStat10(e.defender, e.move), 10)

C25_DamageFormula ==
  IsDamageEvent(ev) =>
    IF ev.move.damage_category = "status" THEN ev.dmg = 0
    ELSE IF DamageNum(ev) < DamageDen(ev) THEN ev.dmg = 1
    ELSE /\ ev.dmg * DamageDen(ev) <= DamageNum(ev)
         /\ DamageNum(ev) < (ev.dmg + 1) * DamageDen(ev)

C25_Witness ==
  /\ IsDamageEvent(ev)
  /\ ev.move.damage_category = "physical"
  /\ ev.move.power = 0
  /\ ~ev.move.scale_with_hp
  /\ Eff8(ev.defender, ev.move) # 0
  /\ ev.defender.defense = 0
  /\ ev.dmg = 1

\* C26: decode_message(encode_message(m)) = m for every mapping m whose keys
\* contain no colon and whose values contain no newline, values that are
\* empty, that begin or end with a space or that contain ": " included.
NoNewline(v) == \A i \in 1..Len(v) : v[i] # NL

C26_CodecRoundTrip ==
  ( /\ ev.op = "decode_message"
    /\ \A i \in 1..Len(ev.fields) : NoNewline(ev.fields[i][2]) )
  => /\ ev.exc = NoneStr
     /\ ev.decoded = ToMap(ev.fields)

\* C27: a peer originates (as opposed to relays) a GAME_OVER only in a state
\* where some creature in its own view has hp <= 0.
C27_GameOverOnlyAfterFaint ==
  [][ (Emits(ev', "GAME_OVER") /\ ~IsGameOverEvent(ev') /\ ev'.p \in Peers)
      => \/ Fainted(sm'[ev'.p].local_pokemon)
         \/ Fainted(sm'[ev'.p].remote_pokemon)
    ]_vars

C27_Witness ==
  /\ ev.p = Joiner
  /\ Emits(ev, "GAME_OVER")
  /\ ev.op = "handle_incoming" /\ Get(ev.msg, "message_type") = "ATTACK_ANNOUNCE"
  /\ Fainted(sm[Joiner].local_pokemon)

\* C28: when copies of BATTLE_SETUP are lost and retransmitted the receiver
\* processes one logical setup: a copy of BATTLE_SETUP that arrives once the
\* battle has started (the receiver holds the remote creature and has left the
\* setup phases) does not reset the remote creature, the phase or the
\* turn_owner.
IsSetupEvent(e) ==
  e.op = "handle_incoming" /\ Get(e.msg, "message_type") = "BATTLE_SETUP"

BattleStarted(c) ==
  /\ c.local_pokemon # None
  /\ c.remote_pokemon # None
  /\ c.state \notin {"SETUP", "WAITING_FOR_SETUP"}

C28_OneLogicalSetup ==
  [][ (IsSetupEvent(ev') /\ ev'.p \in Battlers /\ BattleStarted(sm[ev'.p]))
      => LET p == ev'.p
         IN /\ sm'[p].remote_pokemon = sm[p].remote_pokemon
            /\ sm'[p].state = sm[p].state
            /\ sm'[p].turn_owner = sm[p].turn_owner
    ]_vars

\* C29: a battle message that arrives in a phase where the turn protocol does
\* not expect it (ATTACK_ANNOUNCE while the receiver's turn_owner is LOCAL or
\* its phase is not WAITING_FOR_MOVE; DEFENSE_ANNOUNCE while its phase is not
\* WAITING_FOR_DEFENSE; CALCULATION_CONFIRM or RESOLUTION_REQUEST while its
\* phase is not PROCESSING_TURN) is ignored: phase, turn_owner and hp do not
\* change and nothing but the ACK is sent in reply.
Unexpected(c, msg) ==
  LET t == Get(msg, "message_type")
  IN \/ t = "ATTACK_ANNOUNCE" /\ (c.turn_owner = "LOCAL" \/ c.state # "WAITING_FOR_MOVE")
     \/ t = "DEFENSE_ANNOUNCE" /\ c.state # "WAITING_FOR_DEFENSE"
     \/ t \in {"CALCULATION_CONFIRM", "RESOLUTION_REQUEST"} /\ c.state # "PROCESSING_TURN"

C29_UnexpectedMessageIgnored ==
  [][ ( /\ ev'.op = "handle_incoming"
        /\ ev'.p \in Battlers
        /\ Unexpected(sm[ev'.p], ev'.msg) )
      => LET p == ev'.p
         IN /\ sm'[p].state = sm[p].state
            /\ sm'[p].turn_owner = sm[p].turn_owner
            /\ SameHp(sm'[p].local_pokemon, sm[p].local_pokemon)
            /\ SameHp(sm'[p].remote_pokemon, sm[p].remote_pokemon)
            /\ \A i \in 1..Len(ev'.out) : IsAck(ev'.out[i].msg)
    ]_vars

\* C30: on a lossless network with fair scheduling, where datagrams may
\* overtake one another, every turn started by an ATTACK_ANNOUNCE completes:
\* no battler stays in WAITING_FOR_DEFENSE or PROCESSING_TURN forever.  Once
\* every datagram has been delivered and tick has nothing left to change or
\* send, only a command can move a peer, and no command is accepted in these
\* two phases: a running battler must not be in one of them then.
TickIdle(p) ==
  LET c == sm_tick(Enter(p), {})
  IN Leave(c) = sm[p] /\ c.out = << >>

Settled ==
  \A p \in Battlers : net[p] = << >> /\ (sm[p].running => TickIdle(p))

MidTurn(p) ==
  sm[p].running /\ sm[p].state \in {"WAITING_FOR_DEFENSE", "PROCESSING_TURN"}

C30_TurnCompletes == Settled => \A p \in Battlers : ~MidTurn(p)

\* C31: in the first turn of a battle on a network without loss, reordering
\* or retransmission, with both battlers holding the creatures exchanged in
\* BATTLE_SETUP, a battler that compares the two CALCULATION_REPORTs of the
\* turn finds them equal: it never answers with a RESOLUTION_REQUEST, also
\* when a creature has an ability.
NoTurnEnded ==
  \A q \in Battlers :
    ~SentType(q, "CALCULATION_CONFIRM") /\ ~SentType(q, "RESOLUTION_REQUEST")

C31_ReportsAgree ==
  [][ ( /\ IsReportEvent(ev')
        /\ ev'.p \in Battlers
        /\ ev'.src = Other(ev'.p)
        /\ NoTurnEnded
        /\ \A q \in Battlers : HoldsBoth(q) )
      => ~Emits(ev', "RESOLUTION_REQUEST")
    ]_vars

\* C32: a battler that handles the BATTLE_SETUP of the other battler
\* reconstructs the creature the sender holds with every attribute equal:
\* name, max_hp, hp, the four stats, types, abilities, both uses counters and
\* the effectiveness table.
C32_CreatureRoundTrip ==
  [][ ( /\ IsSetupEvent(ev')
        /\ ev'.p \in Battlers
        /\ ev'.src = Other(ev'.p)
        /\ sm[ev'.src].local_pokemon # None
        /\ to_json(sm[ev'.src].local_pokemon) = Get(ev'.msg, "pokemon") )
      => sm'[ev'.p].remote_pokemon = sm[ev'.src].local_pokemon
    ]_vars

\* ------------------------------------------------------------------ the host's two threads
\* BattleApplication.run starts network_loop in a thread of its own and runs
\* input_loop in the main thread; both reach ReliabilityLayer.send_reliable on
\* the one ReliabilityLayer of the session, and nothing in main.py,
\* state_machine.py or reliability.py takes a lock.  The interpreter may
\* switch threads between any two bytecodes, so next_sequence_number is three
\* steps: self._seq is loaded, the sum is stored, and self._seq is read again
\* for the return value.  The host serves a joiner that connects and may
\* retransmit its HANDSHAKE_REQUEST, while the host's user types chat lines.

\* handle_incoming for a HANDSHAKE_REQUEST, up to the call of _send_reliable
\* in _on_handshake_request
handshake_request_until_send(c, msg, addr, seed) ==
  LET c1 == IF c.peer_addr = NoneStr /\ c.role # "SPECTATOR"
              THEN [c EXCEPT !.peer_addr = addr] ELSE c
      c2 == incoming_message(c1, msg, addr)
      c3 == IF c2.role = "HOST" /\ c2.peer_addr # NoneStr /\ addr = c2.peer_addr
              THEN RelayEach(c2, Without(msg, {"sequence_number", "ack_number"}),
                             c2.spectators)
              ELSE c2
  IN [c3 EXCEPT !.rng_seed = seed, !.peer_addr = addr]

\* the input thread: _handle_chat calls send_chat_text, which calls
\* send_reliable for self.peer_addr
RaceChat ==
  /\ th["input"].pc = "idle"
  /\ Ready(Host)
  /\ sm[Host].peer_addr # NoneStr
  /\ Len(th["input"].log) < MaxRaceChats
  /\ th' = [th EXCEPT !["input"] =
              [@ EXCEPT !.pc = "load",
                        !.fields = [ message_type |-> "CHAT_MESSAGE",
                                     sender_name |-> "Player",
                                     content_type |-> "TEXT",
                                     message_text |-> "hi" ],
                        !.addr = sm[Host].peer_addr]]
  /\ ev' = EnvEvent("send_chat_text", Host)
  /\ UNCHANGED <<sm, net, tx, seen, faults>>

\* the network thread: transport.receive returned a datagram.  On the host a
\* HANDSHAKE_REQUEST takes the thread into send_reliable; any other datagram
\* is handled without a sequenced send.  The joiner's handlers run one at a
\* time.
RaceReceive(p) ==
  /\ p = Host => th["network"].pc = "idle"
  /\ sm[p].running
  /\ net[p] # << >>
  /\ LET d == Head(net[p])
         rcvd == IF HasSeq(d.msg) THEN ParseInt(d.msg.sequence_number) ELSE 0
     IN IF p = Host /\ Get(d.msg, "message_type") = "HANDSHAKE_REQUEST"
          THEN LET c == handshake_request_until_send(Enter(Host), d.msg, d.src, 1)
               IN /\ sm' = [sm EXCEPT ![Host] = Leave(c)]
                  /\ net' = AddNet([net EXCEPT ![Host] = Tail(@)], Host, c.out)
                  /\ ev' = Event("handle_incoming", Host, d.src, d.msg, NoneStr, c)
                  /\ tx' = [tx EXCEPT ![Host] = TxCount(@, c.out)]
                  /\ seen' = [seen EXCEPT ![Host] = Max(@, rcvd)]
                  /\ th' = [th EXCEPT !["network"] =
                              [@ EXCEPT !.pc = "load",
                                        !.fields = [message_type |-> "HANDSHAKE_RESPONSE",
                                                    seed |-> ToStr(1)],
                                        !.addr = c.peer_addr]]
                  /\ UNCHANGED faults
          ELSE LET c == handle_incoming(Enter(p), d.msg, d.src, 1)
               IN Commit(p, c, [net EXCEPT ![p] = Tail(@)],
                         Event("handle_incoming", p, d.src, d.msg, NoneStr, c),
                         rcvd, faults)

\* next_sequence_number, "self._seq += 1": the attribute is loaded
RaceLoad(t) ==
  /\ th[t].pc = "load"
  /\ th' = [th EXCEPT ![t] = [@ EXCEPT !.pc = "store", !.tmp = sm[Host].seq]]
  /\ ev' = [EnvEvent("load_seq", Host) EXCEPT !.arg = t]
  /\ UNCHANGED <<sm, net, tx, seen, faults>>

\* next_sequence_number, "self._seq += 1": the sum is stored
RaceStore(t) ==
  /\ th[t].pc = "store"
  /\ th[t].tmp + 1 <= MaxSeq
  /\ sm' = [sm EXCEPT ![Host].seq = th[t].tmp + 1]
  /\ th' = [th EXCEPT ![t] = [@ EXCEPT !.pc = "return"]]
  /\ ev' = [EnvEvent("store_seq", Host) EXCEPT !.arg = t]
  /\ UNCHANGED <<net, tx, seen, faults>>

\* next_sequence_number, "return self._seq"
RaceReturn(t) ==
  /\ th[t].pc = "return"
  /\ th' = [th EXCEPT ![t] = [@ EXCEPT !.pc = "send", !.seq = sm[Host].seq]]
  /\ ev' = [EnvEvent("return_seq", Host) EXCEPT !.arg = t]
  /\ UNCHANGED <<sm, net, tx, seen, faults>>

\* the rest of send_reliable: the fields are stamped, encoded and sent and
\* the pending record is written; _on_handshake_request then sets the phase
RaceSend(t) ==
  /\ th[t].pc = "send"
  /\ LET seq == th[t].seq
         msg == With(th[t].fields, "sequence_number", ToStr(seq))
         c0 == [Enter(Host) EXCEPT !.stamped = <<seq>>]
         c1 == transport_send(c0, msg, th[t].addr)
         c2 == [c1 EXCEPT !.pending = PendingPut(@, seq, th[t].addr, msg)]
         c3 == IF t = "network" THEN [c2 EXCEPT !.state = "WAITING_FOR_SETUP"] ELSE c2
     IN /\ sm' = [sm EXCEPT ![Host] = Leave(c3)]
        /\ net' = AddNet(net, Host, c3.out)
        /\ ev' = Event("send_reliable", Host, NoneStr, NoMsg, t, c3)
        /\ tx' = [tx EXCEPT ![Host] = TxCount(@, c3.out)]
        /\ seen' = [seen EXCEPT ![Host] = Max(@, seq)]
        /\ th' = [th EXCEPT ![t] =
                    [@ EXCEPT !.pc = "idle",
                              !.log = Append(@, [seq |-> seq, addr |-> th[t].addr,
                                                 msg |-> msg])]]
        /\ UNCHANGED faults

\* the network thread: state_machine.tick after receive
RaceTick(p) ==
  /\ p = Host => th["network"].pc = "idle"
  /\ Tick(p)

NextRace ==
  \/ JoinerSetup
  \/ RaceChat
  \/ \E p \in Battlers : RaceReceive(p)
  \/ \E p \in Battlers : RaceTick(p)
  \/ \E t \in Threads : RaceLoad(t)
  \/ \E t \in Threads : RaceStore(t)
  \/ \E t \in Threads : RaceReturn(t)
  \/ \E t \in Threads : RaceSend(t)

SpecRace == Init /\ [][NextRace]_vars

\* C33: with the input thread and the network thread of the host running in
\* parallel, no two outbound messages are stamped with the same sequence
\* number, and the pending record of a sent message holds that message: it
\* is not overwritten by the record of another send.
RaceLog == th["input"].log \o th["network"].log

C33_SequenceAccessSerialized ==
  /\ \A i, j \in 1..Len(RaceLog) : i # j => RaceLog[i].seq # RaceLog[j].seq
  /\ \A i \in 1..Len(RaceLog) :
       LET k == PendingIndex(sm[Host].pending, RaceLog[i].seq, RaceLog[i].addr)
       IN k # 0 => sm[Host].pending[k].msg = RaceLog[i].msg

\* C34: a battler that has sent GAME_OVER, or that handles a GAME_OVER, is
\* in the terminal phase GAME_OVER from then on: it does not return to
\* WAITING_FOR_MOVE and it sends no further ATTACK_ANNOUNCE.
C34_GameOverIsTerminal ==
  [][ \A p \in Battlers :
        ( SentType(p, "GAME_OVER")' \/ (IsGameOverEvent(ev') /\ ev'.p = p) )
        => /\ sm'[p].state = "GAME_OVER"
           /\ ~(ev'.p = p /\ Emits(ev', "ATTACK_ANNOUNCE"))
    ]_vars

\* C35: the two battlers are never both able to attack: there is no state
\* in which host and joiner both have turn_owner LOCAL and are both in
\* WAITING_FOR_MOVE.
CanAttack(p) == sm[p].turn_owner = "LOCAL" /\ sm[p].state = "WAITING_FOR_MOVE"

C35_SingleTurnOwner == ~(CanAttack(Host) /\ CanAttack(Joiner))

\* C36: a battler in WAITING_FOR_MOVE holds no report of a finished turn:
\* its local_calc_report and its last_calc_report_remote are both empty,
\* whether the previous turn ended by CALCULATION_CONFIRM or by
\* RESOLUTION_REQUEST.
C36_ReportsClearedBetweenTurns ==
  \A p \in Battlers :
    sm[p].state = "WAITING_FOR_MOVE"
      => sm[p].local_calc_report = None /\ sm[p].last_calc_report_remote = None

\* C37: the host's peer_addr changes only when the host handles a
\* HANDSHAKE_REQUEST, and then to the address that datagram came from; it is
\* never an address of the host's spectator list.
IsHandshakeRequestEvent(e) ==
  e.op = "handle_incoming" /\ Get(e.msg, "message_type") = "HANDSHAKE_REQUEST"

C37_PeerAddrFromHandshake ==
  [][ /\ sm'[Host].peer_addr # sm[Host].peer_addr
          => /\ ev'.p = Host
             /\ IsHandshakeRequestEvent(ev')
             /\ sm'[Host].peer_addr = ev'.src
      /\ ~Contains(sm'[Host].spectators, sm'[Host].peer_addr)
    ]_vars

\* C38: when both drivers have supplied a creature, in any order relative to
\* the handshake, and every datagram sent has been delivered in order and
\* handled, both battlers hold both creatures and have left the setup phases.
BothSupplied == \A p \in Battlers : sm[p].running /\ sm[p].local_pokemon # None

C38_SetupCompletes ==
  (Settled /\ BothSupplied /\ faults.net = 0)
    => \A p \in Battlers :
         HoldsBoth(p) /\ sm[p].state \notin {"SETUP", "WAITING_FOR_SETUP"}

\* C39: for a non-ACK message the host handles from the battling peer, each
\* spectator is sent exactly one relayed copy, whatever the message type,
\* CHAT_MESSAGE included.
RelayedCopies(e, dst) ==
  {j \in 1..Len(e.out) : IsRelayedCopy(e.out[j], e.msg, dst)}

C39_OneRelayedCopyPerSpectator ==
  [][ ( /\ ev'.op = "handle_incoming"
        /\ ev'.p = Host
        /\ ev'.src = Joiner
        /\ sm[Host].peer_addr = Joiner
        /\ Truthy(Get(ev'.msg, "message_type"))
        /\ ~IsAck(ev'.msg) )
      => \A i \in 1..Len(sm[Host].spectators) :
           Cardinality(RelayedCopies(ev', sm[Host].spectators[i])) = 1
    ]_vars

\* ------------------------------------------------------------------ the move handler alone
\* One WaitingForMoveHandler, started as host, facing an opponent that may
\* send any ATTACK_ANNOUNCE, DEFENSE_ANNOUNCE or ACK.  sm[Host] is the handler
\* object.  Two threads of the application may call send_attack_announce; a
\* block under "with self.lock" is one step, what lies between two such
\* blocks is not protected.  The handler's own receive thread and
\* retransmission thread run their handlers one at a time.

\* WaitingForMoveHandler.__init__
InitHandler ==
  [ running |-> FALSE,
    current_state |-> "WAITING_FOR_TURN",
    is_my_turn |-> FALSE,
    opponent_address |-> NoneStr,
    move_name |-> NoneStr,
    pending_acks |-> << >>,
    ack_received |-> << >>,
    last_attack_announce |-> None,
    last_defense_announce |-> None,
    sequence_number |-> 0 ]

InitMove ==
  /\ sm = [p \in Peers |-> IF p = Host THEN InitHandler ELSE InitPeer(p, MaxRetriesArg)]
  /\ net = [p \in Peers |-> << >>]
  /\ ev = EnvEvent("init", NoneStr)
  /\ tx = [p \in Peers |-> << >>]
  /\ seen = [p \in Peers |-> 0]
  /\ faults = [net |-> 0, late |-> 0]
  /\ th = [t \in Threads |-> NoCall]

\* the handler h ran a step that sent the datagrams out
MoveCommit(h, out, e) ==
  /\ h.sequence_number <= MaxMoveSeq
  /\ sm' = [sm EXCEPT ![Host] = h]
  /\ net' = AddNet(net, Host, out)
  /\ ev' = [e EXCEPT !.out = out]
  /\ tx' = [tx EXCEPT ![Host] = TxCount(@, out)]
  /\ seen' = [seen EXCEPT ![Host] = Max(@, h.sequence_number)]
  /\ UNCHANGED faults

\* WaitingForMoveHandler.start(is_host = True, opponent_address)
MoveStart ==
  /\ ~sm[Host].running
  /\ sm[Host].opponent_address = NoneStr
  /\ MoveCommit([sm[Host] EXCEPT !.running = TRUE,
                                 !.opponent_address = Joiner,
                                 !.is_my_turn = TRUE,
                                 !.current_state = "WAITING_TO_ATTACK"],
                << >>, EnvEvent("start", Host))
  /\ UNCHANGED th

\* send_attack_announce, first block under the lock: the turn and the state
\* are looked at; the call returns False or goes on without the lock
MoveCheck(t) ==
  /\ th[t].pc = "idle"
  /\ \E move_name \in {"Tackle"} :
       IF ~sm[Host].is_my_turn \/ sm[Host].current_state # "WAITING_TO_ATTACK"
         THEN /\ ev' = [EnvEvent("send_attack_announce", Host)
                          EXCEPT !.arg = "False", !.src = t]
              /\ ev' # ev
              /\ UNCHANGED <<sm, net, tx, seen, faults, th>>
         ELSE /\ th' = [th EXCEPT ![t] =
                          [@ EXCEPT !.pc = "seq",
                                    !.fields = [message_type |-> "ATTACK_ANNOUNCE",
                                                move_name |-> move_name],
                                    !.addr = sm[Host].opponent_address]]
              /\ ev' = [EnvEvent("send_attack_announce", Host) EXCEPT !.src = t]
              /\ UNCHANGED <<sm, net, tx, seen, faults>>

\* _get_next_sequence, under the lock
MoveGetSeq(t) ==
  /\ th[t].pc = "seq"
  /\ LET h == [sm[Host] EXCEPT !.sequence_number = @ + 1]
     IN /\ MoveCommit(h, << >>, [EnvEvent("_get_next_sequence", Host) EXCEPT !.src = t])
        /\ th' = [th EXCEPT ![t] = [@ EXCEPT !.pc = "send", !.seq = h.sequence_number]]

\* self.udp.send(msg_text.encode(), self.opponent_address), no lock held
MoveUdpSend(t) ==
  /\ th[t].pc = "send"
  /\ LET msg == With(th[t].fields, "sequence_number", ToStr(th[t].seq))
         addr == sm[Host].opponent_address
     IN /\ MoveCommit(sm[Host], <<[dst |-> addr, msg |-> msg]>>,
                      [EnvEvent("udp_send", Host) EXCEPT !.src = t])
        /\ th' = [th EXCEPT ![t] =
                    [@ EXCEPT !.pc = "update",
                              !.log = Append(@, [seq |-> th[t].seq, addr |-> addr,
                                                 msg |-> msg])]]

\* send_attack_announce, second block under the lock
MoveUpdate(t) ==
  /\ th[t].pc = "update"
  /\ LET seq == th[t].seq
         msg == With(th[t].fields, "sequence_number", ToStr(seq))
         h == [sm[Host] EXCEPT
                 !.move_name = th[t].fields.move_name,
                 !.pending_acks = PendingPut(@, seq, sm[Host].opponent_address, msg),
                 !.ack_received = (seq :> FALSE) @@ @,
                 !.current_state = "WAITING_FOR_DEFENSE"]
     IN /\ MoveCommit(h, << >>, [EnvEvent("send_attack_announce_done", Host)
                                   EXCEPT !.src = t])
        /\ th' = [th EXCEPT ![t] = [NoCall EXCEPT !.log = th[t].log]]

\* the opponent: it acknowledges what it receives, answers an
\* ATTACK_ANNOUNCE with a DEFENSE_ANNOUNCE, and announces one attack in a
\* turn that is its own
OpponentSeq == Cardinality(DOMAIN tx[Joiner]) + 1

OpponentCommit(n, out, e) ==
  /\ net' = AddNet(n, Joiner, out)
  /\ ev' = [e EXCEPT !.out = out]
  /\ tx' = [tx EXCEPT ![Joiner] = TxCount(@, out)]
  /\ UNCHANGED <<sm, seen, faults, th>>

MoveOpponentReceives ==
  /\ net[Joiner] # << >>
  /\ LET d == Head(net[Joiner])
         ack == [dst |-> Host, msg |-> [message_type |-> "ACK",
                                        ack_number |-> Get(d.msg, "sequence_number")]]
         defense == [dst |-> Host, msg |-> [message_type |-> "DEFENSE_ANNOUNCE",
                                            sequence_number |-> ToStr(OpponentSeq)]]
         out == IF Get(d.msg, "message_type") = "ATTACK_ANNOUNCE" THEN <<ack, defense>>
                ELSE IF Get(d.msg, "message_type") = "DEFENSE_ANNOUNCE" THEN <<ack>>
                ELSE << >>
     IN OpponentCommit([net EXCEPT ![Joiner] = Tail(@)], out,
                       [EnvEvent("opponent_receive", Joiner) EXCEPT !.msg = d.msg])

MoveOpponentAttacks ==
  /\ sm[Host].running
  /\ ~sm[Host].is_my_turn
  /\ sm[Host].current_state = "WAITING_FOR_DEFENSE"
  /\ net[Host] = << >> /\ net[Joiner] = << >>
  /\ OpponentSeq <= MaxMoveSeq
  /\ OpponentCommit(net, <<[dst |-> Host,
                             msg |-> [message_type |-> "ATTACK_ANNOUNCE",
                                      move_name |-> "Tackle",
                                      sequence_number |-> ToStr(OpponentSeq)]]>>,
                    EnvEvent("opponent_attack", Joiner))

\* _handle_attack_announce
handle_attack_announce(h, msg, addr) ==
  IF ~h.running \/ h.current_state # "WAITING_FOR_DEFENSE" \/ addr # h.opponent_address
    THEN [h |-> h, out |-> << >>]
  ELSE LET seq == Get(msg, "sequence_number")
           defense_seq == h.sequence_number + 1
           defense == [message_type |-> "DEFENSE_ANNOUNCE",
                       sequence_number |-> ToStr(defense_seq)]
       IN [h |-> [h EXCEPT !.sequence_number = defense_seq,
                           !.last_attack_announce =
                               [move_name |-> Get(msg, "move_name"), seq |-> seq, addr |-> addr],
                           !.pending_acks = PendingPut(@, defense_seq, addr, defense),
                           !.ack_received = (defense_seq :> FALSE) @@ @,
                           !.current_state = "READY_FOR_CALCULATION",
                           !.move_name = Get(msg, "move_name")],
           out |-> <<[dst |-> addr, msg |-> [message_type |-> "ACK", ack_number |-> seq]],
                     [dst |-> addr, msg |-> defense]>>]

\* _handle_defense_announce
handle_defense_announce(h, msg, addr) ==
  IF ~h.running \/ h.current_state # "WAITING_FOR_DEFENSE" \/ addr # h.opponent_address
    THEN [h |-> h, out |-> << >>]
  ELSE LET seq == Get(msg, "sequence_number")
       IN [h |-> [h EXCEPT !.last_defense_announce = [seq |-> seq, addr |-> addr],
                           !.current_state = "READY_FOR_CALCULATION"],
           out |-> <<[dst |-> addr, msg |-> [message_type |-> "ACK", ack_number |-> seq]]>>]

\* _handle_ack
move_handle_ack(h, msg, addr) ==
  LET ack_num == Get(msg, "ack_number")
  IN IF ~Truthy(ack_num) \/ ~IsIntStr(ack_num) THEN [h |-> h, out |-> << >>]
     ELSE IF ParseInt(ack_num) \in DOMAIN h.ack_received
       THEN [h |-> [h EXCEPT !.ack_received[ParseInt(ack_num)] = TRUE], out |-> << >>]
       ELSE [h |-> h, out |-> << >>]

\* _receive_loop and _handle_incoming
MoveReceive ==
  /\ sm[Host].running
  /\ net[Host] # << >>
  /\ LET d == Head(net[Host])
         message_type == Get(d.msg, "message_type")
         r == CASE message_type = "ATTACK_ANNOUNCE" ->
                     handle_attack_announce(sm[Host], d.msg, d.src)
                [] message_type = "DEFENSE_ANNOUNCE" ->
                     handle_defense_announce(sm[Host], d.msg, d.src)
                [] message_type = "ACK" -> move_handle_ack(sm[Host], d.msg, d.src)
                [] OTHER -> [h |-> sm[Host], out |-> << >>]
     IN /\ r.h.sequence_number <= MaxMoveSeq
        /\ sm' = [sm EXCEPT ![Host] = r.h]
        /\ net' = AddNet([net EXCEPT ![Host] = Tail(@)], Host, r.out)
        /\ ev' = [[EnvEvent("handle_incoming", Host) EXCEPT !.src = d.src, !.msg = d.msg]
                    EXCEPT !.out = r.out]
        /\ tx' = [tx EXCEPT ![Host] = TxCount(@, r.out)]
        /\ seen' = [seen EXCEPT ![Host] = Max(@, r.h.sequence_number)]
        /\ UNCHANGED <<faults, th>>

\* one pass of _ack_retransmission_loop before any timeout has expired:
\* acknowledged records are dropped
MoveAckLoop ==
  /\ sm[Host].running
  /\ \E i \in 1..Len(sm[Host].pending_acks) :
       sm[Host].ack_received[sm[Host].pending_acks[i].seq]
  /\ LET acked(e) == sm[Host].ack_received[e.seq]
         keep == SelectSeq(sm[Host].pending_acks, LAMBDA e : ~acked(e))
         kept == {keep[i].seq : i \in 1..Len(keep)}
         h == [sm[Host] EXCEPT !.pending_acks = keep,
                               !.ack_received = [s \in kept |-> sm[Host].ack_received[s]]]
     IN MoveCommit(h, << >>, EnvEvent("_ack_retransmission_loop", Host))
  /\ UNCHANGED th

\* prepare_for_next_turn, called once the turn is ready for calculation; the
\* record of what was announced in the turn starts afresh
MovePrepareForNextTurn ==
  /\ sm[Host].running
  /\ sm[Host].current_state = "READY_FOR_CALCULATION"
  /\ LET mine == ~sm[Host].is_my_turn
         h == [sm[Host] EXCEPT
                 !.is_my_turn = mine,
                 !.current_state = IF mine THEN "WAITING_TO_ATTACK"
                                   ELSE "WAITING_FOR_DEFENSE",
                 !.move_name = NoneStr,
                 !.last_attack_announce = None,
                 !.last_defense_announce = None]
     IN MoveCommit(h, << >>, EnvEvent("prepare_for_next_turn", Host))
  /\ th' = [t \in Threads |-> [th[t] EXCEPT !.log = << >>]]

NextMove ==
  \/ MoveStart
  \/ \E t \in Threads : MoveCheck(t)
  \/ \E t \in Threads : MoveGetSeq(t)
  \/ \E t \in Threads : MoveUdpSend(t)
  \/ \E t \in Threads : MoveUpdate(t)
  \/ MoveOpponentReceives
  \/ MoveOpponentAttacks
  \/ MoveReceive
  \/ MoveAckLoop
  \/ MovePrepareForNextTurn

SpecMove == InitMove /\ [][NextMove]_vars

\* C40: WaitingForMoveHandler puts at most one ATTACK_ANNOUNCE on the wire
\* per turn, also when send_attack_announce is called from two threads.
AnnouncedThisTurn == th["input"].log \o th["network"].log

C40_OneAttackAnnouncePerTurn == Len(AnnouncedThisTurn) <= 1

====
